---- MODULE Spec2Model ----
(***************************************************************************)
(* Model of pyLucyReader: the correction / merge engine                    *)
(* (experiment/data.py: CorrectedMetadata, CorrectedAssay, CorrectedPlate) *)
(* and the accessor layer (base/accessors.py, tecan/data.py), the sheet    *)
(* header TecanReader reads (tecan/io.py), the experiment and its metadata *)
(* table (experiment/data.py) and the notations of base/util.py.           *)
(*                                                                         *)
(* Data frames are sequences of rows; a row is [well, value], a well is    *)
(* <<row, column>> with row a sequence of characters.  A missing reading   *)
(* (NaN) is NA.  Optional values (None) are sequences of length <= 1.      *)
(***************************************************************************)
EXTENDS Integers, Sequences, FiniteSets, TLC

VARIABLES
    srcs,      \* the source assays handed to CorrectedAssay (objects on the heap)
    metas,     \* the source metadata handed to CorrectedMetadata
    plates,    \* the source plates handed to CorrectedPlate
    oneShot,   \* TRUE when the argument is an iterator that can be traversed once
    update,    \* the update argument of CorrectedAssay
    pc,        \* "new" before the constructor ran, then "built" or "failed"
    kind,      \* which constructor the run is about: "assay", "metadata", "plate", ...
    self,      \* the CorrectedAssay, None (<<>>) or <<object>>
    cmeta,     \* the result of CorrectedMetadata(...), None or <<object>>
    cplate,    \* the CorrectedPlate, None or <<object>>
    err,       \* the exception the last call raised, "none" when it returned
    ret,       \* what the last property access returned
    nCombine,  \* how many times _cache_data ran (saturates at 2)
    series,    \* the TimeSeries assays of the plate the accessors read
    frame,     \* the reads of the experiment of that one plate, the table of the generic accessors
    out,       \* the last accessor call: [op, on, key, res]
    sheet,     \* the header cells of the worksheet TecanReader.read is given
    plate,     \* what TecanReader.read returned or raised, None before the call
    rawmeta,   \* the raw table handed to ExperimentMetadata
    emeta,     \* what ExperimentMetadata(raw) returned or raised, None before the call
    loaded,    \* the plates and the metadata handed to Experiment
    experiment, \* what Experiment(plates, metadata) returned or raised, and the warnings
    arg,       \* the argument of a call of base/util.py
    val,       \* what that call returned or raised, None before the call
    nCompute   \* how often each lazy table was asked for and computed, None elsewhere

corrVars == <<srcs, metas, plates, oneShot, update, pc, kind, self, cmeta, cplate, err, ret, nCombine>>

accVars == <<series, frame, out>>

extVars == <<sheet, plate, rawmeta, emeta, loaded, experiment, arg, val>>

lazyVars == <<nCompute>>

vars == <<corrVars, accVars, extVars, lazyVars>>

(***************************************************************************)
(* Bounds of the model.                                                    *)
(***************************************************************************)
MaxSources == 2

\* Row labels and column numbers of the plates of the model.
RowA == <<"A">>
RowB == <<"B">>
Wells == {<<RowA, 1>>, <<RowA, 2>>, <<RowB, 1>>}
TableLens == {0, 1, 2}

NA == -1
None == <<>>
Some(x) == <<x>>

AssayTypes == {"SingleAssay", "TimeSeries"}
MetadataTypes == {"AssayMetadata", "PlateMetadata", "InstrumentMetadata"}

(***************************************************************************)
(* Ordering of well coordinates: Python compares the (row, column) tuples  *)
(* of the MultiIndex lexicographically, strings by code point.             *)
(***************************************************************************)
Ord(c) ==
    CASE c = "0" -> 48 [] c = "1" -> 49 [] c = "2" -> 50 [] c = "3" -> 51
      [] c = "A" -> 65 [] c = "B" -> 66 [] c = "a" -> 97 [] c = "b" -> 98
      [] c = "-" -> 45 [] OTHER -> 0

RECURSIVE StrLess(_, _)
StrLess(s, t) ==
    IF t = <<>> THEN FALSE
    ELSE IF s = <<>> THEN TRUE
    ELSE IF Ord(Head(s)) # Ord(Head(t)) THEN Ord(Head(s)) < Ord(Head(t))
    ELSE StrLess(Tail(s), Tail(t))

WellLess(w1, w2) ==
    \/ StrLess(w1[1], w2[1])
    \/ w1[1] = w2[1] /\ w1[2] < w2[2]

(***************************************************************************)
(* The pandas operations _cache_data uses.                                 *)
(***************************************************************************)
Index(df) == {df[i].well : i \in DOMAIN df}

Loc(df, w) == (CHOOSE i \in DOMAIN df : df[i].well = w)

ValueAt(df, w) == df[Loc(df, w)].value

\* DataFrame.drop(labels, errors='ignore'): the rows whose label is not in labels
Drop(df, labels) == SelectSeq(df, LAMBDA r : r.well \notin labels)

\* DataFrame.append(other): a new frame, other's rows after df's
DfAppend(df, other) == df \o other

\* an update that also copies the missing values of other
DfUpdateOverwriteAll(df, other) ==
    [i \in DOMAIN df |->
        IF df[i].well \in Index(other)
        THEN [well |-> df[i].well, value |-> ValueAt(other, df[i].well)]
        ELSE df[i]]

\* DataFrame.update(other): aligned on the index, only the non-NA values of other
\* overwrite
DfUpdate(df, other) ==
    [i \in DOMAIN df |->
        IF df[i].well \in Index(other) /\ ValueAt(other, df[i].well) # NA
        THEN [well |-> df[i].well, value |-> ValueAt(other, df[i].well)]
        ELSE df[i]]

RECURSIVE Insert(_, _)
Insert(sorted, r) ==
    IF sorted = <<>> THEN <<r>>
    ELSE IF WellLess(r.well, Head(sorted).well) THEN <<r>> \o sorted
    ELSE <<Head(sorted)>> \o Insert(Tail(sorted), r)

RECURSIVE SortFrom(_, _)
SortFrom(df, acc) ==
    IF df = <<>> THEN acc ELSE SortFrom(Tail(df), Insert(acc, Head(df)))

\* a combine that leaves the rows in the order they were appended
NoSort(df) == df

\* DataFrame.sort_index(): rows ordered by (row, column)
SortIndex(df) == SortFrom(df, <<>>)

IsSorted(df) ==
    \A i \in DOMAIN df : \A j \in DOMAIN df :
        i < j => WellLess(df[i].well, df[j].well)

(***************************************************************************)
(* GenericMetadata and its reconciliation (CorrectedMetadata.__new__).     *)
(* A metadata object is [cls, fields]; a field value is a scalar or, after *)
(* reconciliation, a list.                                                 *)
(***************************************************************************)
Scalar(x) == [kind |-> "scalar", items |-> <<x>>]
List(xs) == [kind |-> "list", items |-> xs]
PyNone == Scalar("None")

GenericMetadata(cls, fields) == [cls |-> cls, fields |-> fields]

\* dict.get(key): None when the key is absent
Get(m, key) == IF key \in DOMAIN m THEN m[key] ELSE PyNone

\* one traversal of an iterable: an iterator is empty once it has been consumed
Iterate(xs, consumed) == IF consumed THEN <<>> ELSE xs

Range(s) == {s[i] : i \in DOMAIN s}

\* a loop that checks isinstance only
TypeLoopInstanceOnly(classes, known) ==
    \E i \in DOMAIN classes : classes[i] \notin known

\* the isinstance / same-class loop of both __new__ methods: TRUE when it raises
TypeLoopRaises(classes, known) ==
    \/ \E i \in DOMAIN classes : classes[i] \notin known
    \/ \E i \in DOMAIN classes : i > 1 /\ classes[i] # classes[i - 1]

Fail(e) == [err |-> e, obj |-> None]
Ok(o) == [err |-> "none", obj |-> Some(o)]

ReconcileField(oldmeta, key) ==
    LET values == [i \in DOMAIN oldmeta |-> Get(oldmeta[i], key)]
    IN  IF Cardinality(Range(values)) = 1
        THEN values[1]
        ELSE List([i \in DOMAIN values |-> values[i].items[1]])

CorrectedMetadataNew(metadata, once) ==
    LET first == Iterate(metadata, FALSE)
        classes == [i \in DOMAIN first |-> first[i].cls]
        second == Iterate(metadata, once)
        oldmeta == [i \in DOMAIN second |-> second[i].fields]
        keys == UNION {DOMAIN oldmeta[i] : i \in DOMAIN oldmeta}
    IN  IF TypeLoopRaises(classes, MetadataTypes) THEN Fail("TypeError")
        ELSE IF \E i \in DOMAIN oldmeta : \E k \in DOMAIN oldmeta[i] :
                    oldmeta[i][k].kind = "list"
             THEN Fail("TypeError")              \* set() of an unhashable list
        ELSE IF first = <<>> THEN Fail("TypeError")   \* metadata_type is None
        ELSE Ok(GenericMetadata(classes[Len(classes)],
                                [k \in keys |-> ReconcileField(oldmeta, k)]))

(***************************************************************************)
(* Assays.  A source assay is [cls, name, metadata, raw]; raw is the data  *)
(* frame AbstractAssay.raw returns (the object itself, not a copy).        *)
(***************************************************************************)
AssayObj(cls, name, mode, raw) ==
    [cls |-> cls, name |-> name,
     metadata |-> GenericMetadata("AssayMetadata", [k \in {"mode"} |-> Scalar(mode)]),
     raw |-> raw]

\* SingleAssay.data returns _data, TimeSeries.data a copy of it: the same table
AssayData(a) == a.raw

\* CorrectedAssay.__new__ followed by CorrectedAssay.__init__; refs are the
\* references to the source objects that list(assays) keeps
CorrectedAssayNew(assays, refs, upd, once) ==
    LET first == Iterate(assays, FALSE)
        classes == [i \in DOMAIN first |-> first[i].cls]
        second == Iterate(assays, once)
        kept == Iterate(refs, once)
        metadata == CorrectedMetadataNew([i \in DOMAIN second |-> second[i].metadata], FALSE)
    IN  IF TypeLoopRaises(classes, AssayTypes) THEN Fail("TypeError")
        ELSE IF first = <<>> THEN Fail("AttributeError")   \* assay_type.__name__ of None
        ELSE IF metadata.err # "none" THEN Fail(metadata.err)
        ELSE Ok([cls |-> <<"Corrected", classes[Len(classes)]>>,
                 _assays |-> kept,
                 _data |-> None,
                 _metadata |-> metadata.obj[1],
                 _update |-> upd])

\* a loop that updates whatever the update flag says
RECURSIVE CombineFromAlwaysUpdate(_, _, _, _)
CombineFromAlwaysUpdate(data, assays, k, upd) ==
    IF k > Len(assays) THEN data
    ELSE CombineFromAlwaysUpdate(
            DfUpdate(DfAppend(data, Drop(assays[k].raw, Index(data))), AssayData(assays[k])),
            assays, k + 1, upd)

\* the loop of _cache_data over self._assays[1:]
RECURSIVE CombineFrom(_, _, _, _)
CombineFrom(data, assays, k, upd) ==
    IF k > Len(assays) THEN data
    ELSE LET appended == DfAppend(data, Drop(assays[k].raw, Index(data)))
             updated == IF upd THEN DfUpdate(appended, AssayData(assays[k])) ELSE appended
         IN  CombineFrom(updated, assays, k + 1, upd)

\* CorrectedAssay._cache_data: the table left in self._data
CacheData(assays, upd) == SortIndex(CombineFrom(assays[1].raw, assays, 2, upd))

(***************************************************************************)
(* Plates.  A plate is [assays, metadata, instrument]; assays is the       *)
(* AssayCollection, a dict keyed by name, in insertion order.              *)
(***************************************************************************)
RECURSIVE DictFrom(_, _)
DictFrom(items, acc) ==
    IF items = <<>> THEN acc
    ELSE LET it == Head(items)
         IN  IF \E i \in DOMAIN acc : acc[i].name = it.name
             THEN DictFrom(Tail(items),
                           [i \in DOMAIN acc |-> IF acc[i].name = it.name THEN it ELSE acc[i]])
             ELSE DictFrom(Tail(items), Append(acc, it))

\* a collection in which the first assay of a name is the one kept
RECURSIVE KeepFirst(_, _)
KeepFirst(items, acc) ==
    IF items = <<>> THEN acc
    ELSE IF \E i \in DOMAIN acc : acc[i].name = Head(items).name
         THEN KeepFirst(Tail(items), acc)
         ELSE KeepFirst(Tail(items), Append(acc, Head(items)))

AssayCollectionOfFirst(items) == KeepFirst(items, <<>>)

\* AssayCollection.__init__: {assay.name: assay for assay in assays}
AssayCollection(items) == DictFrom(items, <<>>)

MinLen(ps) ==
    IF ps = <<>> THEN 0
    ELSE CHOOSE n \in {Len(ps[i].assays) : i \in DOMAIN ps} :
            \A i \in DOMAIN ps : n <= Len(ps[i].assays)

\* zip(*(p.assays for p in plates)): the k-th tuple holds the k-th assay of every plate
ZipAssays(ps) ==
    [k \in 1..MinLen(ps) |-> [p \in DOMAIN ps |-> [plate |-> p, idx |-> k]]]

DerefIn(ps, ref) == ps[ref.plate].assays[ref.idx]

\* CorrectedPlate.__init__
CorrectedPlateNew(ps, once) ==
    LET first == Iterate(ps, FALSE)
        tuples == ZipAssays(first)
        made == [k \in DOMAIN tuples |->
                    CorrectedAssayNew([p \in DOMAIN tuples[k] |-> DerefIn(first, tuples[k][p])],
                                      tuples[k], FALSE, FALSE)]
        later == Iterate(ps, once)
        metadata == CorrectedMetadataNew([p \in DOMAIN later |-> later[p].metadata], FALSE)
        instrument == CorrectedMetadataNew([p \in DOMAIN later |-> later[p].instrument], FALSE)
    IN  IF \E k \in DOMAIN made : made[k].err # "none"
        THEN Fail(made[CHOOSE k \in DOMAIN made :
                        /\ made[k].err # "none"
                        /\ \A j \in DOMAIN made : made[j].err # "none" => k <= j].err)
        ELSE IF metadata.err # "none" THEN Fail(metadata.err)
        ELSE IF instrument.err # "none" THEN Fail(instrument.err)
        ELSE Ok([_plates |-> ps,
                 _assays |-> AssayCollection(
                     [k \in DOMAIN made |->
                         [name |-> DerefIn(first, tuples[k][1]).name, assay |-> made[k].obj[1]]]),
                 _metadata |-> metadata.obj[1],
                 _instrument |-> instrument.obj[1]])

(***************************************************************************)
(* The inputs of the model.  The readings of the i-th source are i or      *)
(* missing, so that a combined value tells which source it came from.      *)
(***************************************************************************)
Modes == {"Luminescence", "Absorbance"}
Names == {"Lum", "OD"}

Tables(i, lens) ==
    UNION {{t \in [1..n -> [well : Wells, value : {NA, i}]] :
                \A a \in 1..n : \A b \in 1..n : a # b => t[a].well # t[b].well}
           : n \in lens}

\* sources of one concrete type with rich tables
RECURSIVE CombineInputs(_)
CombineInputs(n) ==
    IF n = 0 THEN {<<>>}
    ELSE {Append(s, AssayObj("TimeSeries", "Lum", "Luminescence", t)) :
            s \in CombineInputs(n - 1), t \in Tables(n, TableLens)}

\* sources of any type (a Plate is not an assay at all) with one-row tables
RECURSIVE LifeInputs(_)
LifeInputs(n) ==
    IF n = 0 THEN {<<>>}
    ELSE {Append(s, AssayObj(c, "Lum", m, <<[well |-> w, value |-> n]>>)) :
            s \in LifeInputs(n - 1), c \in AssayTypes \cup {"Plate"}, m \in Modes, w \in Wells}

FieldKeys == {"mode", "gain"}
FieldValues == {"None", "x", "y"}

FieldMaps ==
    UNION {[ks -> {Scalar(v) : v \in FieldValues}] : ks \in SUBSET FieldKeys}

RECURSIVE MetaInputs(_)
MetaInputs(n) ==
    IF n = 0 THEN {<<>>}
    ELSE {Append(s, GenericMetadata(c, f)) :
            s \in MetaInputs(n - 1), c \in {"AssayMetadata", "PlateMetadata"}, f \in FieldMaps}

PlateAssays ==
    LET one(nm, c) == AssayObj(c, nm, "Luminescence", <<[well |-> <<RowA, 1>>, value |-> 1]>>)
    IN  {<<>>}
        \cup {<<one(nm, c)>> : nm \in Names, c \in AssayTypes}
        \cup {<<one(q[1], c1), one(q[2], c2)>> :
                q \in {p \in Names \X Names : p[1] # p[2]}, c1 \in AssayTypes, c2 \in AssayTypes}

PlateObj(assays, type) ==
    [assays |-> assays,
     metadata |-> GenericMetadata("PlateMetadata", [k \in {"type"} |-> Scalar(type)]),
     instrument |-> GenericMetadata("InstrumentMetadata", [k \in {"name"} |-> Scalar("infinite")])]

RECURSIVE PlateInputs(_)
PlateInputs(n) ==
    IF n = 0 THEN {<<>>}
    ELSE {Append(s, PlateObj(a, t)) :
            s \in PlateInputs(n - 1), a \in PlateAssays, t \in {"96", "384"}}

NoRet == [op |-> "none", value |-> None]

NoFrame == [index |-> <<>>, columns |-> <<>>, cells |-> <<>>]

NoOut == [op |-> "none", on |-> 0, key |-> [type |-> "none", v |-> 0], res |-> [err |-> "none", obj |-> None]]

\* no plate is read through the accessors
AccIdle == series = <<>> /\ frame = NoFrame /\ out = NoOut

\* nothing was read and no experiment built
ExtIdle ==
    /\ sheet = None /\ plate = None
    /\ rawmeta = None /\ emeta = None
    /\ loaded = None /\ experiment = None
    /\ arg = None /\ val = None

LazyIdle == nCompute = None

InitCommon ==
    /\ pc = "new"
    /\ self = None /\ cmeta = None /\ cplate = None
    /\ err = "none" /\ ret = NoRet /\ nCombine = 0
    /\ AccIdle
    /\ ExtIdle
    /\ LazyIdle

InitAssay ==
    /\ kind = "assay"
    /\ srcs \in UNION {LifeInputs(n) : n \in 0..MaxSources}
    /\ metas = <<>> /\ plates = <<>>
    /\ oneShot \in BOOLEAN /\ update \in BOOLEAN
    /\ InitCommon

InitMetadata ==
    /\ kind = "metadata"
    /\ metas \in UNION {MetaInputs(n) : n \in 0..MaxSources}
    /\ srcs = <<>> /\ plates = <<>>
    /\ oneShot \in BOOLEAN /\ update = FALSE
    /\ InitCommon

InitPlate ==
    /\ kind = "plate"
    /\ plates \in UNION {PlateInputs(n) : n \in 0..MaxSources}
    /\ srcs = <<>> /\ metas = <<>>
    /\ oneShot \in BOOLEAN /\ update = FALSE
    /\ InitCommon

Init == InitAssay \/ InitMetadata \/ InitPlate

InitCombine ==
    /\ kind = "assay"
    /\ srcs \in UNION {CombineInputs(n) : n \in 1..MaxSources}
    /\ metas = <<>> /\ plates = <<>>
    /\ oneShot = FALSE /\ update \in BOOLEAN
    /\ InitCommon

(***************************************************************************)
(* The operations.                                                         *)
(***************************************************************************)
SrcRefs == [i \in DOMAIN srcs |-> [plate |-> 0, idx |-> i]]

Deref(ref) == IF ref.plate = 0 THEN srcs[ref.idx] ELSE plates[ref.plate].assays[ref.idx]

\* CorrectedAssay(assays, update)
NewCorrectedAssay ==
    /\ pc = "new" /\ kind = "assay"
    /\ LET r == CorrectedAssayNew(srcs, SrcRefs, update, oneShot)
       IN  /\ self' = r.obj
           /\ err' = r.err
           /\ pc' = IF r.err = "none" THEN "built" ELSE "failed"
    /\ UNCHANGED <<srcs, metas, plates, oneShot, update, kind, cmeta, cplate, ret, nCombine>>
    /\ UNCHANGED <<accVars, extVars, lazyVars>>

\* CorrectedMetadata(metadata)
NewCorrectedMetadata ==
    /\ pc = "new" /\ kind = "metadata"
    /\ LET r == CorrectedMetadataNew(metas, oneShot)
       IN  /\ cmeta' = r.obj
           /\ err' = r.err
           /\ pc' = IF r.err = "none" THEN "built" ELSE "failed"
    /\ UNCHANGED <<srcs, metas, plates, oneShot, update, kind, self, cplate, ret, nCombine>>
    /\ UNCHANGED <<accVars, extVars, lazyVars>>

\* CorrectedPlate(plates)
NewCorrectedPlate ==
    /\ pc = "new" /\ kind = "plate"
    /\ LET r == CorrectedPlateNew(plates, oneShot)
       IN  /\ cplate' = r.obj
           /\ err' = r.err
           /\ pc' = IF r.err = "none" THEN "built" ELSE "failed"
    /\ UNCHANGED <<srcs, metas, plates, oneShot, update, kind, self, cmeta, ret, nCombine>>
    /\ UNCHANGED <<accVars, extVars, lazyVars>>

\* a property that recombines on every access
NeedsCacheAlways(obj) == TRUE

\* the test `self._data is None` of the raw and data properties
NeedsCache(obj) == obj._data = None

SelfAssays == [i \in DOMAIN self[1]._assays |-> Deref(self[1]._assays[i])]

\* `if self._data is None: self._cache_data()`: the table self._data holds afterwards.
\* With a single source self._data is the source's own frame, which
\* sort_index(inplace=True) reorders.
EnsureCached ==
    LET obj == self[1]
        table == IF NeedsCache(obj) THEN CacheData(SelfAssays, obj._update) ELSE obj._data[1]
    IN  /\ self' = Some([obj EXCEPT !._data = Some(table)])
        /\ nCombine' = IF NeedsCache(obj) THEN (IF nCombine < 2 THEN nCombine + 1 ELSE 2)
                       ELSE nCombine
        /\ srcs' = IF NeedsCache(obj) /\ Len(obj._assays) = 1 /\ obj._assays[1].plate = 0
                   THEN [srcs EXCEPT ![obj._assays[1].idx].raw = table]
                   ELSE srcs

\* CorrectedAssay.raw
AccessRaw ==
    /\ pc = "built" /\ kind = "assay"
    /\ EnsureCached
    /\ ret' = [op |-> "raw", value |-> self'[1]._data]
    /\ err' = "none"
    /\ UNCHANGED <<metas, plates, oneShot, update, pc, kind, cmeta, cplate>>
    /\ UNCHANGED <<accVars, extVars, lazyVars>>

\* CorrectedAssay.data: super().data of the concrete assay type
AccessData ==
    /\ pc = "built" /\ kind = "assay"
    /\ EnsureCached
    /\ ret' = [op |-> "data", value |-> self'[1]._data]
    /\ err' = "none"
    /\ UNCHANGED <<metas, plates, oneShot, update, pc, kind, cmeta, cplate>>
    /\ UNCHANGED <<accVars, extVars, lazyVars>>

\* CorrectedAssay.name
AccessName ==
    /\ pc = "built" /\ kind = "assay"
    /\ ret' = [op |-> "name", value |-> Some(SelfAssays[1].name)]
    /\ err' = "none"
    /\ UNCHANGED <<srcs, metas, plates, oneShot, update, pc, kind, self, cmeta, cplate, nCombine>>
    /\ UNCHANGED <<accVars, extVars, lazyVars>>

\* CorrectedAssay.metadata
AccessMetadata ==
    /\ pc = "built" /\ kind = "assay"
    /\ ret' = [op |-> "metadata", value |-> Some(self[1]._metadata)]
    /\ err' = "none"
    /\ UNCHANGED <<srcs, metas, plates, oneShot, update, pc, kind, self, cmeta, cplate, nCombine>>
    /\ UNCHANGED <<accVars, extVars, lazyVars>>

Next ==
    \/ NewCorrectedAssay
    \/ NewCorrectedMetadata
    \/ NewCorrectedPlate
    \/ AccessRaw
    \/ AccessData
    \/ AccessName
    \/ AccessMetadata

Spec == Init /\ [][Next]_vars

NextCombine ==
    \/ NewCorrectedAssay
    \/ AccessRaw
    \/ AccessData
    \/ AccessName
    \/ AccessMetadata

SpecCombine == InitCombine /\ [][NextCombine]_vars

(***************************************************************************)
(* Properties of the correction engine.                                    *)
(***************************************************************************)
Built == pc = "built" /\ kind = "assay"

Combined == Built /\ self[1]._data # None

Covers(k, w) == w \in Index(srcs[k].raw)

\* the first source, in sequence order, that covers well w
FirstCovering(w) ==
    CHOOSE k \in DOMAIN srcs : Covers(k, w) /\ \A j \in DOMAIN srcs : Covers(j, w) => k <= j

Coverage == UNION {Index(srcs[k].raw) : k \in DOMAIN srcs}

\* C1: with update=False every well of the combined table holds the value of the
\* first source, in sequence order, that covers the well.
C1_FirstSourceWins ==
    (Combined /\ ~update) =>
        \A i \in DOMAIN self[1]._data[1] :
            LET r == self[1]._data[1][i]
            IN  /\ r.well \in Coverage
                /\ r.value = ValueAt(srcs[FirstCovering(r.well)].raw, r.well)

C1_Witness ==
    /\ Combined /\ ~update /\ Len(srcs) >= 2
    /\ \E w \in Wells :
        /\ Covers(1, w) /\ Covers(2, w)
        /\ ValueAt(srcs[1].raw, w) = NA /\ ValueAt(srcs[2].raw, w) = 2
        /\ ValueAt(self[1]._data[1], w) = NA

\* C2 as stated: with update=True and two sources, a well covered by both holds the
\* second source's value whatever it is, a well covered by one holds that source's.
C2_SecondSourceAlwaysWins ==
    (Combined /\ update /\ Len(srcs) = 2) =>
        \A w \in Coverage :
            /\ w \in Index(self[1]._data[1])
            /\ ValueAt(self[1]._data[1], w) =
                 IF Covers(2, w) THEN ValueAt(srcs[2].raw, w) ELSE ValueAt(srcs[1].raw, w)

\* C2 amended: a well covered by both sources holds the second source's value when
\* that value is not missing and the first source's value when it is; a well covered
\* by one source holds that source's value.
C2_SecondSourceWinsUnlessMissing ==
    (Combined /\ update /\ Len(srcs) = 2) =>
        \A w \in Coverage :
            /\ w \in Index(self[1]._data[1])
            /\ ValueAt(self[1]._data[1], w) =
                 IF Covers(1, w) /\ Covers(2, w)
                 THEN (IF ValueAt(srcs[2].raw, w) # NA
                       THEN ValueAt(srcs[2].raw, w)
                       ELSE ValueAt(srcs[1].raw, w))
                 ELSE IF Covers(2, w) THEN ValueAt(srcs[2].raw, w)
                 ELSE ValueAt(srcs[1].raw, w)

C2_Witness ==
    /\ Combined /\ update /\ Len(srcs) = 2
    /\ \E w \in Wells :
        /\ Covers(1, w) /\ Covers(2, w)
        /\ ValueAt(srcs[1].raw, w) = 1 /\ ValueAt(srcs[2].raw, w) = 2
        /\ ValueAt(self[1]._data[1], w) = 2
    /\ \E w \in Wells :
        /\ Covers(1, w) /\ Covers(2, w)
        /\ ValueAt(srcs[1].raw, w) = 1 /\ ValueAt(srcs[2].raw, w) = NA
        /\ ValueAt(self[1]._data[1], w) = 1

\* C3: the combined table holds each well of the union of the sources' coverages
\* exactly once, sorted by (row, column); with two disjoint sources its row count is
\* the sum of the two coverages.
C3_UnionOnceSorted ==
    Combined =>
        LET data == self[1]._data[1]
        IN  /\ Index(data) = Coverage
            /\ Len(data) = Cardinality(Coverage)
            /\ IsSorted(data)
            /\ (Len(srcs) = 2 /\ Index(srcs[1].raw) \cap Index(srcs[2].raw) = {})
                    => Len(data) = Len(srcs[1].raw) + Len(srcs[2].raw)

C3_Witness ==
    /\ Combined /\ Len(srcs) = 2
    /\ Index(srcs[1].raw) = {<<RowB, 1>>}
    /\ Index(srcs[2].raw) = {<<RowA, 2>>, <<RowA, 1>>}
    /\ srcs[2].raw[1].well = <<RowA, 2>>
    /\ Len(self[1]._data[1]) = 3

\* the value CorrectedMetadata is to give field key of the sources ms
Agreed(ms, key) ==
    LET values == [i \in DOMAIN ms |-> Get(ms[i].fields, key)]
    IN  IF \A i \in DOMAIN ms : values[i] = values[1]
        THEN values[1]
        ELSE [kind |-> "list", items |-> [i \in DOMAIN ms |-> values[i].items[1]]]

SameKind(ms) == \A i \in DOMAIN ms : ms[i].cls = ms[1].cls

\* C4: reconciling N metadata instances of one kind yields one instance of that kind
\* in which every field present in any source is the common value when all N agree
\* and the list of the N values in source order otherwise.
C4_Reconciled ==
    (kind = "metadata" /\ pc # "new" /\ metas # <<>> /\ SameKind(metas)) =>
        /\ pc = "built"
        /\ cmeta[1].cls = metas[1].cls
        /\ \A i \in DOMAIN metas : \A key \in DOMAIN metas[i].fields :
            /\ key \in DOMAIN cmeta[1].fields
            /\ cmeta[1].fields[key] = Agreed(metas, key)

\* the same for a sequence that can be traversed again (a list or a tuple)
C4_ReconciledList ==
    (kind = "metadata" /\ pc # "new" /\ metas # <<>> /\ SameKind(metas) /\ ~oneShot) =>
        /\ pc = "built"
        /\ cmeta[1].cls = metas[1].cls
        /\ DOMAIN cmeta[1].fields = UNION {DOMAIN metas[i].fields : i \in DOMAIN metas}
        /\ \A key \in DOMAIN cmeta[1].fields : cmeta[1].fields[key] = Agreed(metas, key)

Mixed(objs) == \E i \in DOMAIN objs : \E j \in DOMAIN objs : objs[i].cls # objs[j].cls

\* C5: a CorrectedAssay or CorrectedMetadata of sources that are not all of one
\* concrete type fails with TypeError at construction, before any table is combined
\* and without a corrected entity being created.
C5_MixedTypesFail ==
    /\ (kind = "assay" /\ pc # "new" /\ Mixed(srcs)) =>
            (pc = "failed" /\ err = "TypeError" /\ self = None /\ nCombine = 0)
    /\ (kind = "metadata" /\ pc # "new" /\ Mixed(metas)) =>
            (pc = "failed" /\ err = "TypeError" /\ cmeta = None)

C5_Witness ==
    /\ kind = "assay" /\ pc = "failed" /\ err = "TypeError"
    /\ Len(srcs) = 2 /\ srcs[1].cls = "TimeSeries" /\ srcs[2].cls = "SingleAssay"
    /\ ~oneShot

\* plates whose assays pair up, position by position, with one concrete type
PlatesHomogeneous ==
    /\ \A p \in DOMAIN plates : Len(plates[p].assays) = Len(plates[1].assays)
    /\ \A p \in DOMAIN plates : \A k \in DOMAIN plates[p].assays :
            plates[p].assays[k].cls = plates[1].assays[k].cls

\* C6: a corrected entity of an empty sequence fails at construction with the same
\* TypeError as mixed types, and every non-empty homogeneous sequence, a one-shot
\* iterable included, constructs successfully.
C6_EmptyFailsHomogeneousBuilds ==
    pc # "new" =>
        /\ (kind = "assay" /\ srcs = <<>>) => (pc = "failed" /\ err = "TypeError")
        /\ (kind = "metadata" /\ metas = <<>>) => (pc = "failed" /\ err = "TypeError")
        /\ (kind = "plate" /\ plates = <<>>) => (pc = "failed" /\ err = "TypeError")
        /\ (kind = "assay" /\ srcs # <<>> /\ ~Mixed(srcs) /\ srcs[1].cls \in AssayTypes)
                => pc = "built"
        /\ (kind = "metadata" /\ metas # <<>> /\ ~Mixed(metas)) => pc = "built"
        /\ (kind = "plate" /\ plates # <<>> /\ PlatesHomogeneous) => pc = "built"

\* the same for sequences that can be traversed again, and only for failure as such
C6_EmptyFailsListBuilds ==
    pc # "new" =>
        /\ (kind = "assay" /\ srcs = <<>>) => (pc = "failed" /\ err = "AttributeError")
        /\ (kind = "metadata" /\ metas = <<>>) => (pc = "failed" /\ err = "TypeError")
        /\ (kind = "plate" /\ plates = <<>>) => (pc = "failed" /\ err = "TypeError")
        /\ (kind = "assay" /\ srcs # <<>> /\ ~Mixed(srcs) /\ srcs[1].cls \in AssayTypes)
                => (pc = "built" <=> ~oneShot)
        /\ (kind = "metadata" /\ metas # <<>> /\ ~Mixed(metas)) => pc = "built"
        /\ (kind = "plate" /\ plates # <<>> /\ PlatesHomogeneous)
                => (pc = "built" <=> ~oneShot)

\* the metadata a CorrectedAssay is to carry from construction on
SourceMetadata == [i \in DOMAIN srcs |-> srcs[i].metadata]

C7_Inv ==
    Built =>
        /\ self[1]._data = None <=> nCombine = 0
        /\ nCombine <= 1
        /\ self[1]._metadata.cls = "AssayMetadata"
        /\ self[1]._metadata.fields = [k \in {"mode"} |-> Agreed(SourceMetadata, k)]
        /\ ret.op \in {"raw", "data"} => (self[1]._data # None /\ ret.value = self[1]._data)
        /\ ret.op = "metadata" => ret.value = Some(self[1]._metadata)

C7_Step ==
    /\ pc = "new" => (pc' = "new" \/ self' = None \/ self'[1]._data = None)
    /\ Combined =>
        /\ self' = self /\ nCombine' = nCombine /\ pc' = pc
        /\ ret'.op \in {"raw", "data"} => ret'.value = self[1]._data

\* C7: a CorrectedAssay is UNBUILT after construction (no combined data, metadata
\* reconciled), the first access of raw or data combines exactly once, and from
\* then on every access returns the cached table and the state stays CACHED.
C7_Lifecycle == []C7_Inv /\ [][C7_Step]_vars

C7_Witness ==
    /\ Combined /\ nCombine = 1 /\ Len(srcs) = 2
    /\ ret.op = "name"
    /\ srcs[1].metadata # srcs[2].metadata

(***************************************************************************)
(* The accessor layer.  A frame is [index, columns, cells]: index the      *)
(* sequence of wells, columns the sequence of column labels (records of    *)
(* the column levels), cells[r][c] the reading of row r in column c.       *)
(* Durations are whole seconds.  A key is [type, v], type the Python type  *)
(* of the key ("int", "str", "timedelta", "datetime", "tuple").            *)
(***************************************************************************)
MaxTime == 2

Durations == {30 * k : k \in 0..MaxTime}

Key(type, v) == [type |-> type, v |-> v]

\* the reading of assay name in well w at elapsed time t
Reading(name, w, t) == <<name, w, t>>

\* the elements of a finite set of integers in increasing order
RECURSIVE SortedSeq(_)
SortedSeq(S) ==
    IF S = {} THEN <<>>
    ELSE LET least == CHOOSE x \in S : \A y \in S : x <= y
         IN  <<least>> \o SortedSeq(S \ {least})

Positions(labels, Test(_)) == SortedSeq({i \in DOMAIN labels : Test(labels[i])})

\* DataFrame.loc[:, columns at cols]
TakeColumns(f, cols) ==
    [index |-> f.index,
     columns |-> [j \in DOMAIN cols |-> f.columns[cols[j]]],
     cells |-> [r \in DOMAIN f.index |-> [j \in DOMAIN cols |-> f.cells[r][cols[j]]]]]

\* DataFrame.loc[rows at rows, :]
TakeRows(f, rows) ==
    [index |-> [i \in DOMAIN rows |-> f.index[rows[i]]],
     columns |-> f.columns,
     cells |-> [i \in DOMAIN rows |-> f.cells[rows[i]]]]

\* DataFrame.droplevel(the levels not in keep, axis='columns')
DropLevels(f, keep) ==
    [f EXCEPT !.columns = [j \in DOMAIN f.columns |->
                              [l \in (DOMAIN f.columns[j]) \cap keep |-> f.columns[j][l]]]]

\* Index.unique(): the values in the order of their first appearance
RECURSIVE UniqueFrom(_, _)
UniqueFrom(s, acc) ==
    IF s = <<>> THEN acc
    ELSE UniqueFrom(Tail(s), IF Head(s) \in Range(acc) THEN acc ELSE Append(acc, Head(s)))

Unique(s) == UniqueFrom(s, <<>>)

LevelValues(f, level) == [j \in DOMAIN f.columns |-> f.columns[j][level]]

\* positional indexing with 1-based arithmetic, the bug of an off-by-one port
PyIndexOneBased(s, i) ==
    IF i >= 1 /\ i <= Len(s) THEN Ok(s[i])
    ELSE IF i < 0 /\ -i <= Len(s) THEN Ok(s[Len(s) + i + 1])
    ELSE Fail("IndexError")

\* pd.Index[i] for an integer i: Python positions, negative ones from the end
PyIndex(s, i) ==
    IF i >= 0 /\ i < Len(s) THEN Ok(s[i + 1])
    ELSE IF i < 0 /\ -i <= Len(s) THEN Ok(s[Len(s) + i + 1])
    ELSE Fail("IndexError")

(***************************************************************************)
(* base/util.py: strpwell, and the well notation it parses.                *)
(***************************************************************************)
Letters == {"A", "B", "a", "b"}
Digits == {"0", "1", "2", "3", "4", "5", "6", "7", "8", "9"}

DigitValue(c) ==
    CASE c = "0" -> 0 [] c = "1" -> 1 [] c = "2" -> 2 [] c = "3" -> 3 [] c = "4" -> 4
      [] c = "5" -> 5 [] c = "6" -> 6 [] c = "7" -> 7 [] c = "8" -> 8 [] c = "9" -> 9

DigitChar(d) == CHOOSE c \in Digits : DigitValue(c) = d

\* the longest prefix of s made of characters of set: a greedy [..]+ of the regex
RECURSIVE TakeWhile(_, _)
TakeWhile(s, set) ==
    IF s = <<>> \/ Head(s) \notin set THEN <<>>
    ELSE <<Head(s)>> \o TakeWhile(Tail(s), set)

\* int(column)
RECURSIVE ParseInt(_, _)
ParseInt(digits, acc) ==
    IF digits = <<>> THEN acc
    ELSE ParseInt(Tail(digits), 10 * acc + DigitValue(Head(digits)))

\* a parse that reads the column one too high
StrpwellColumnOff(k) ==
    IF k.type # "str" THEN Fail("KeyError")
    ELSE LET row == TakeWhile(k.v, Letters)
             column == TakeWhile(SubSeq(k.v, Len(row) + 1, Len(k.v)), Digits)
         IN  IF row = <<>> \/ column = <<>> THEN Fail("KeyError")
             ELSE Ok(<<row, ParseInt(column, 0) + 1>>)

\* strpwell(w): re.match(r'([a-z]+)([0-9]+)', w, re.I) -> (row, int(column))
Strpwell(k) ==
    IF k.type # "str" THEN Fail("KeyError")
    ELSE LET row == TakeWhile(k.v, Letters)
             column == TakeWhile(SubSeq(k.v, Len(row) + 1, Len(k.v)), Digits)
         IN  IF row = <<>> \/ column = <<>> THEN Fail("KeyError")
             ELSE Ok(<<row, ParseInt(column, 0)>>)

\* a conversion that writes the last digit only
DecimalLastDigit(n) == <<DigitChar(n % 10)>>

\* str(column)
RECURSIVE Decimal(_)
Decimal(n) ==
    IF n < 10 THEN <<DigitChar(n)>> ELSE Decimal(n \div 10) \o <<DigitChar(n % 10)>>

\* the well notation of a (row, column) pair: row.str.cat(column.astype(str))
FormatWell(w) == w[1] \o Decimal(w[2])

(***************************************************************************)
(* base/util.py: strfdelta, strffdelta, strpdelta.  A duration (timedelta) *)
(* is a whole, non-negative number of seconds, 86400 to the day; the texts *)
(* of the model carry no decimal point.                                    *)
(***************************************************************************)
\* the dictionary d of strfdelta: td.days, and td.seconds split by divmod
DeltaFields(td) ==
    [D |-> td \div 86400,
     H |-> (td % 86400) \div 3600,
     M |-> ((td % 86400) % 3600) \div 60,
     S |-> ((td % 86400) % 3600) % 60]

\* the templates of strffdelta: every %{X} with the unit letter that follows it
TemplateDHMS == <<[field |-> "D", unit |-> "d"], [field |-> "H", unit |-> "h"],
                  [field |-> "M", unit |-> "m"], [field |-> "S", unit |-> "s"]>>

TemplateHMS == SubSeq(TemplateDHMS, 2, 4)

TemplateMS == SubSeq(TemplateDHMS, 3, 4)

TemplateS == SubSeq(TemplateDHMS, 4, 4)

\* _DeltaTemplate(fmt).substitute(**d)
RECURSIVE Substitute(_, _)
Substitute(fmt, d) ==
    IF fmt = <<>> THEN <<>>
    ELSE Decimal(d[Head(fmt).field]) \o <<Head(fmt).unit>> \o Substitute(Tail(fmt), d)

\* strfdelta(td, fmt)
Strfdelta(td, fmt) == Substitute(fmt, DeltaFields(td))

\* strffdelta(td)
Strffdelta(td) ==
    IF td \div 86400 > 0 THEN Strfdelta(td, TemplateDHMS)
    ELSE IF td % 86400 > 3600 THEN Strfdelta(td, TemplateHMS)
    ELSE IF td % 86400 > 60 THEN Strfdelta(td, TemplateMS)
    ELSE Strfdelta(td, TemplateS)

\* an optional group ((?P<name>\d+?)u)? of _strpdelta_regex at the head of s: digits up
\* to the unit letter u, or nothing when no such text stands there
Component(s, u) ==
    LET ds == TakeWhile(s, Digits)
    IN  IF ds # <<>> /\ Len(s) > Len(ds) /\ s[Len(ds) + 1] = u
        THEN [value |-> Some(ParseInt(ds, 0)), rest |-> SubSeq(s, Len(ds) + 2, Len(s))]
        ELSE [value |-> None, rest |-> s]

\* the group ((?P<seconds>\d+?\.?\d+?)s)?: \d+? twice, so two digits at least
SecondsComponent(s) ==
    LET ds == TakeWhile(s, Digits)
    IN  IF Len(ds) >= 2 /\ Len(s) > Len(ds) /\ s[Len(ds) + 1] = "s"
        THEN [value |-> Some(ParseInt(ds, 0)), rest |-> SubSeq(s, Len(ds) + 2, Len(s))]
        ELSE [value |-> None, rest |-> s]

\* a keyword of timedelta(**time_params): absent when the group did not match
Param(c) == IF c.value = None THEN 0 ELSE c.value[1]

\* strpdelta(s): the pattern matches every text, if only the empty prefix
Strpdelta(k) ==
    IF k.type # "str" THEN Fail("TypeError")
    ELSE LET days == Component(k.v, "d")
             hours == Component(days.rest, "h")
             minutes == Component(hours.rest, "m")
             seconds == SecondsComponent(minutes.rest)
         IN  Ok(Key("timedelta", 86400 * Param(days) + 3600 * Param(hours)
                                    + 60 * Param(minutes) + Param(seconds)))

(***************************************************************************)
(* tecan/data.py: TimeSeries, TimePoint, WellAccessor, Plate.data.         *)
(***************************************************************************)
\* TimeSeries(data, metadata): super().__init__(data, metadata) leaves plate at its
\* default, so self._plate is None
TimeSeriesObj(name, index, timepoints) ==
    [cls |-> "TimeSeries", name |-> name, index |-> index, timepoints |-> timepoints,
     _plate |-> None]

\* SingleAssay(data, metadata): a read of one column, no plate either
SingleAssayObj(name, index, timepoints) ==
    [cls |-> "SingleAssay", name |-> name, index |-> index, timepoints |-> timepoints,
     _plate |-> None]

\* TimeSeries.data: wells by time points
TimeSeriesData(ts) ==
    [index |-> ts.index,
     columns |-> [j \in DOMAIN ts.timepoints |-> [time |-> ts.timepoints[j]]],
     cells |-> [r \in DOMAIN ts.index |->
                  [j \in DOMAIN ts.timepoints |-> Reading(ts.name, ts.index[r], ts.timepoints[j])]]]

\* str order of the assay names of the model
NameRank(n) == CASE n = "Lum" -> 1 [] n = "OD" -> 2 [] OTHER -> 3

ColumnLess(c1, c2) ==
    \/ NameRank(c1.assay) < NameRank(c2.assay)
    \/ c1.assay = c2.assay /\ c1.time < c2.time

\* pd.concat(assay_data, axis='columns'): the column labels, assay after assay
RECURSIVE ConcatColumns(_)
ConcatColumns(ss) ==
    IF ss = <<>> THEN <<>>
    ELSE [j \in DOMAIN Head(ss).timepoints |->
            [assay |-> Head(ss).name, time |-> Head(ss).timepoints[j]]]
         \o ConcatColumns(Tail(ss))

RECURSIVE InsertColumn(_, _)
InsertColumn(sorted, c) ==
    IF sorted = <<>> THEN <<c>>
    ELSE IF ColumnLess(c, Head(sorted)) THEN <<c>> \o sorted
    ELSE <<Head(sorted)>> \o InsertColumn(Tail(sorted), c)

\* sort_index(axis='columns')
RECURSIVE SortColumnsFrom(_, _)
SortColumnsFrom(labels, acc) ==
    IF labels = <<>> THEN acc
    ELSE SortColumnsFrom(Tail(labels), InsertColumn(acc, Head(labels)))

\* Plate.data: the assays' tables side by side, keyed by assay name, columns sorted
PlateData(ss) ==
    LET columns == SortColumnsFrom(ConcatColumns(ss), <<>>)
        index == ss[1].index
    IN  [index |-> index,
         columns |-> columns,
         cells |-> [r \in DOMAIN index |->
                      [j \in DOMAIN columns |-> Reading(columns[j].assay, index[r], columns[j].time)]]]

\* TimeSeries.__getitem__(t)
TimeSeriesGetItem(ts, k) ==
    IF k.type = "int"
    THEN LET t == PyIndex(ts.timepoints, k.v)
         IN  IF t.err # "none" THEN Fail(t.err)
             ELSE Ok([cls |-> "TimePoint", ts |-> ts.name, t |-> Key("timedelta", t.obj[1])])
    ELSE IF k.type = "datetime"
    THEN IF ts._plate # None /\ ts._plate[1].timestamp # None
         THEN Ok([cls |-> "TimePoint", ts |-> ts.name,
                  t |-> Key("timedelta", k.v - ts._plate[1].timestamp[1])])
         ELSE Fail("ValueError")
    ELSE Ok([cls |-> "TimePoint", ts |-> ts.name, t |-> k])

\* TimePoint.data: self._ts.data.loc[:, self._t]
TimePointData(ts, tp) ==
    IF tp.t.type # "timedelta" \/ tp.t.v \notin Range(ts.timepoints) THEN Fail("KeyError")
    ELSE Ok(TakeColumns(TimeSeriesData(ts),
                        Positions(ts.timepoints, LAMBDA t : t = tp.t.v)))

\* tecan WellAccessor.__getitem__(k) for a single key: a frame of one column, by time
SeriesWellsGetItem(ts, k) ==
    LET ids == IF k.type = "tuple" THEN Ok(k.v) ELSE Strpwell(k)
    IN  IF ids.err # "none" THEN Fail(ids.err)
        ELSE IF ids.obj[1] \notin Range(ts.index) THEN Fail("KeyError")
        ELSE LET r == CHOOSE i \in DOMAIN ts.index : ts.index[i] = ids.obj[1]
             IN  Ok([index |-> ts.timepoints,
                     columns |-> <<[name |-> "value"]>>,
                     cells |-> [j \in DOMAIN ts.timepoints |-> <<TimeSeriesData(ts).cells[r][j]>>]])

(***************************************************************************)
(* base/accessors.py: AssayAccessor, TimeAccessor, WellAccessor.           *)
(***************************************************************************)
AssayIdx(f) == Unique(LevelValues(f, "assay"))

TimeIdx(f) == Unique(LevelValues(f, "time"))

\* AssayAccessor.__getitem__(k)
AssayAccessorGetItem(f, k) ==
    LET name == IF k.type = "int" THEN PyIndex(AssayIdx(f), k.v) ELSE Ok(k.v)
    IN  IF name.err # "none" THEN Fail(name.err)
        ELSE IF name.obj[1] \notin Range(AssayIdx(f)) THEN Fail("KeyError")
        ELSE Ok(DropLevels(TakeColumns(f, Positions(f.columns, LAMBDA c : c.assay = name.obj[1])),
                           {"time"}))

\* TimeAccessor._time_ref: None, and no accessor of the repository overrides it
TimeRef == None

\* ctd(t) for a single key
Ctd(f, k) ==
    IF k.type = "str"
    THEN LET t == Strpdelta(k) IN IF t.err # "none" THEN Fail(t.err) ELSE Ok(t.obj[1].v)
    ELSE IF k.type = "int" THEN PyIndex(TimeIdx(f), k.v)
    ELSE IF k.type = "datetime"
    THEN IF TimeRef # None THEN Ok(k.v - TimeRef[1]) ELSE Fail("ValueError")
    ELSE Ok(k.v)

\* TimeAccessor.__getitem__(k) for a single key
TimeAccessorGetItem(f, k) ==
    LET t == Ctd(f, k)
    IN  IF t.err # "none" THEN Fail(t.err)
        ELSE IF t.obj[1] \notin Range(TimeIdx(f)) THEN Fail("KeyError")
        ELSE Ok(DropLevels(TakeColumns(f, Positions(f.columns, LAMBDA c : c.time = t.obj[1])),
                           {"assay", "time"}))

\* an absent bound of a slice (None)
NoBound == Key("none", 0)

\* slice(start, stop, step)
SliceKey(start, stop, step) == Key("slice", <<start, stop, step>>)

\* ctd(i) for a bound of a slice: None falls through to `return t`
CtdBound(f, b) ==
    IF b.type = "none" THEN Ok(b)
    ELSE LET t == Ctd(f, b)
         IN  IF t.err # "none" THEN Fail(t.err) ELSE Ok(Key("timedelta", t.obj[1]))

\* the exception of the first bound that raised, start before stop before step
FirstError(rs) == rs[CHOOSE i \in DOMAIN rs : rs[i].err # "none" /\ \A j \in 1..(i - 1) : rs[j].err = "none"].err

\* slice(*[ctd(i) for i in (t.start, t.stop, t.step)])
CtdSlice(f, k) ==
    LET rs == [i \in 1..3 |-> CtdBound(f, k.v[i])]
    IN  IF \E i \in 1..3 : rs[i].err # "none" THEN Fail(FirstError(rs))
        ELSE Ok(SliceKey(rs[1].obj[1], rs[2].obj[1], rs[3].obj[1]))

\* the time t lies within the label slice sl, both ends included
InSlice(t, sl) ==
    /\ sl.v[1].type = "none" \/ sl.v[1].v <= t
    /\ sl.v[2].type = "none" \/ t <= sl.v[2].v

\* TimeAccessor.__getitem__(k) for a slice: the columns whose time lies in the slice;
\* a duration is no step of a label slice
TimeAccessorGetSlice(f, k) ==
    LET sl == CtdSlice(f, k)
    IN  IF sl.err # "none" THEN Fail(sl.err)
        ELSE IF sl.obj[1].v[3].type # "none" THEN Fail("TypeError")
        ELSE Ok(DropLevels(TakeColumns(f, Positions(f.columns, LAMBDA c : InSlice(c.time, sl.obj[1]))),
                           {"assay", "time"}))

\* tecan TimeAccessor.__init__, one bound: None and durations stay, anything else
\* indexes the time level by position, which an absolute timestamp cannot
SeriesBound(ts, b) ==
    IF b.type \in {"none", "timedelta"} THEN Ok(b)
    ELSE IF b.type = "int"
    THEN LET t == PyIndex(ts.timepoints, b.v)
         IN  IF t.err # "none" THEN Fail(t.err) ELSE Ok(Key("timedelta", t.obj[1]))
    ELSE Fail("IndexError")

\* TimeSeries.__getitem__(t) for a slice: TimeAccessor(self, t)
TimeSeriesGetSlice(ts, k) ==
    LET rs == [i \in 1..3 |-> SeriesBound(ts, k.v[i])]
    IN  IF \E i \in 1..3 : rs[i].err # "none" THEN Fail(FirstError(rs))
        ELSE Ok([cls |-> "TimeAccessor", ts |-> ts.name,
                 _slice |-> SliceKey(rs[1].obj[1], rs[2].obj[1], rs[3].obj[1])])

\* WellAccessor.__getitem__(k) for a single key: _idx selects on row and column and
\* slices every other index level whole, so the lookup yields the frame of the rows
\* of that well
WellAccessorGetItem(f, k) ==
    LET idx == IF k.type = "tuple" THEN Ok(k.v) ELSE Strpwell(k)
    IN  IF idx.err # "none" THEN Fail(idx.err)
        ELSE IF idx.obj[1] \notin Range(f.index) THEN Fail("KeyError")
        ELSE Ok(DropLevels(TakeRows(f, Positions(f.index, LAMBDA w : w = idx.obj[1])),
                           {"assay", "time"}))

(***************************************************************************)
(* Reading a plate through the accessors.                                  *)
(***************************************************************************)
\* no corrected entity is under construction
CorrIdle ==
    /\ srcs = <<>> /\ metas = <<>> /\ plates = <<>>
    /\ oneShot = FALSE /\ update = FALSE
    /\ pc = "idle" /\ kind = "access"
    /\ self = None /\ cmeta = None /\ cplate = None
    /\ err = "none" /\ ret = NoRet /\ nCombine = 0

IndexInputs ==
    {<<<<RowA, 1>>>>, <<<<RowA, 1>>, <<RowB, 1>>>>, <<<<RowA, 1>>, <<RowA, 2>>, <<RowB, 1>>>>}

TimepointInputs == {SortedSeq(S) : S \in (SUBSET Durations) \ {{}}}

\* the TimeSeries assays of one plate: one or two kinetic reads over the same wells
SeriesInputs ==
    UNION {
        {<<TimeSeriesObj(n, ix, tp)>> : n \in Names, tp \in TimepointInputs}
        \cup {<<TimeSeriesObj(q[1], ix, tp1), TimeSeriesObj(q[2], ix, tp2)>> :
                q \in {p \in Names \X Names : p[1] # p[2]},
                tp1 \in TimepointInputs, tp2 \in TimepointInputs}
        : ix \in IndexInputs}

\* Experiment.reads of one plate is Plate.data under a plate level that is 1 on every
\* row; the index entries leave that level out
InitAccess ==
    /\ CorrIdle
    /\ LazyIdle
    /\ ExtIdle
    /\ series \in SeriesInputs
    /\ frame = PlateData(series)
    /\ out = NoOut

\* positions inside and outside every index of the model
IntKeys == {Key("int", i) : i \in (0 - (MaxTime + 2))..(MaxTime + 1)}

\* durations of the model and one that no series holds
DurationKeys == {Key("timedelta", t) : t \in Durations \cup {15}}

NameKeys == {Key("str", n) : n \in Names \cup {"GFP"}}

AllWells == {RowA, RowB} \X {1, 2}

TupleKeys == {Key("tuple", w) : w \in AllWells}

WellStringKeys ==
    {Key("str", FormatWell(w)) : w \in AllWells}
    \cup {Key("str", <<"a", "1">>), Key("str", <<"1", "A">>), Key("str", <<>>),
          Key("str", <<"A", "0", "1">>), Key("str", <<"A", "1", "-">>)}

Called(op, on, k, res) == out' = [op |-> op, on |-> on, key |-> k, res |-> res]

\* The accessors are views without state of their own: a call's result depends on the
\* table and the key only, so one call per behaviour reaches every result.
Fresh == kind = "access" /\ out.op = "none"

\* accessor.assays[k]
AssayGetItem ==
    /\ Fresh
    /\ \/ \E k \in IntKeys : Called("assays[]", 0, k, AssayAccessorGetItem(frame, k))
       \/ \E k \in NameKeys : Called("assays[]", 0, k, AssayAccessorGetItem(frame, k))
    /\ UNCHANGED <<series, frame>>
    /\ UNCHANGED <<corrVars, extVars, lazyVars>>

\* accessor.times[k]
TimeGetItem ==
    /\ Fresh
    /\ \E k \in IntKeys \cup DurationKeys \cup {Key("datetime", 0)} :
            Called("times[]", 0, k, TimeAccessorGetItem(frame, k))
    /\ UNCHANGED <<series, frame>>
    /\ UNCHANGED <<corrVars, extVars, lazyVars>>

\* accessor.wells[k]
WellGetItem ==
    /\ Fresh
    /\ \/ \E k \in TupleKeys : Called("wells[]", 0, k, WellAccessorGetItem(frame, k))
       \/ \E k \in WellStringKeys : Called("wells[]", 0, k, WellAccessorGetItem(frame, k))
       \/ \E k \in {Key("int", 0)} : Called("wells[]", 0, k, WellAccessorGetItem(frame, k))
    /\ UNCHANGED <<series, frame>>
    /\ UNCHANGED <<corrVars, extVars, lazyVars>>

\* series[k]
SeriesGetItem ==
    /\ Fresh
    /\ \E a \in DOMAIN series : \E k \in IntKeys \cup DurationKeys \cup {Key("datetime", 0)} :
            Called("series[]", a, k, TimeSeriesGetItem(series[a], k))
    /\ UNCHANGED <<series, frame>>
    /\ UNCHANGED <<corrVars, extVars, lazyVars>>

\* series[k].data, on the TimePoint series[k] returned
GetTimePointData ==
    /\ kind = "access"
    /\ out.op = "series[]" /\ out.res.err = "none"
    /\ Called("timepoint.data", out.on, out.key, TimePointData(series[out.on], out.res.obj[1]))
    /\ UNCHANGED <<series, frame>>
    /\ UNCHANGED <<corrVars, extVars, lazyVars>>

\* series.wells[k]
SeriesWellGetItem ==
    /\ Fresh
    /\ \E a \in DOMAIN series :
        \/ \E k \in TupleKeys : Called("series.wells[]", a, k, SeriesWellsGetItem(series[a], k))
        \/ \E k \in WellStringKeys : Called("series.wells[]", a, k, SeriesWellsGetItem(series[a], k))
        \/ \E k \in {Key("int", 0)} : Called("series.wells[]", a, k, SeriesWellsGetItem(series[a], k))
    /\ UNCHANGED <<series, frame>>
    /\ UNCHANGED <<corrVars, extVars, lazyVars>>

\* bounds of the slices asked for: open, a position, a duration, an absolute timestamp
EndBounds == {NoBound, Key("int", 0), Key("int", 1), Key("timedelta", 30), Key("datetime", 30)}

StepBounds == {NoBound, Key("int", 1), Key("timedelta", 30)}

SliceKeys == {SliceKey(a, b, c) : a \in EndBounds, b \in EndBounds, c \in StepBounds}

\* accessor.times[start:stop:step]
TimeGetSlice ==
    /\ Fresh
    /\ \E k \in SliceKeys : Called("times[:]", 0, k, TimeAccessorGetSlice(frame, k))
    /\ UNCHANGED <<series, frame>>
    /\ UNCHANGED <<corrVars, extVars, lazyVars>>

\* series[start:stop:step]
SeriesGetSlice ==
    /\ Fresh
    /\ \E a \in DOMAIN series : \E k \in SliceKeys :
            Called("series[:]", a, k, TimeSeriesGetSlice(series[a], k))
    /\ UNCHANGED <<series, frame>>
    /\ UNCHANGED <<corrVars, extVars, lazyVars>>

NextAccess ==
    \/ TimeGetSlice
    \/ SeriesGetSlice
    \/ AssayGetItem
    \/ TimeGetItem
    \/ WellGetItem
    \/ SeriesGetItem
    \/ GetTimePointData
    \/ SeriesWellGetItem

SpecAccess == InitAccess /\ [][NextAccess]_vars

(***************************************************************************)
(* Properties of the accessor layer.                                       *)
(***************************************************************************)
ValidPosition(s, i) == (0 - Len(s)) <= i /\ i < Len(s)

\* the element at Python position i of s
AtPosition(s, i) == IF i >= 0 THEN s[i + 1] ELSE s[Len(s) + i + 1]

\* C8: for every valid position i among the time points, indexing by the integer i
\* gives the same data as indexing by the duration of the i-th time point, for a
\* TimeSeries and for the generic time accessor.
C8_PositionIsDuration ==
    /\ (out.op = "timepoint.data" /\ out.key.type = "int"
            /\ ValidPosition(series[out.on].timepoints, out.key.v)) =>
        LET ts == series[out.on]
            byDuration == TimeSeriesGetItem(ts, Key("timedelta", AtPosition(ts.timepoints, out.key.v)))
        IN  /\ out.res.err = "none"
            /\ out.res = TimePointData(ts, byDuration.obj[1])
    /\ (out.op = "times[]" /\ out.key.type = "int" /\ ValidPosition(TimeIdx(frame), out.key.v)) =>
        /\ out.res.err = "none"
        /\ out.res = TimeAccessorGetItem(frame, Key("timedelta", AtPosition(TimeIdx(frame), out.key.v)))

C8_Witness ==
    /\ out.op = "timepoint.data" /\ out.key.type = "int" /\ out.key.v = 1
    /\ out.res.err = "none"
    /\ series[out.on].timepoints = <<0, 30, 60>>
    /\ out.res.obj[1].columns = <<[time |-> 30]>>

\* C9: for every well present in the table the well accessor returns identical data
\* for the well-notation string and for the (row, column) pair.
C9_StringIsPair ==
    /\ (out.op = "wells[]" /\ out.key.type = "tuple" /\ out.key.v \in Range(frame.index)) =>
        /\ out.res.err = "none"
        /\ out.res = WellAccessorGetItem(frame, Key("str", FormatWell(out.key.v)))
    /\ (out.op = "wells[]" /\ out.key.type = "str"
            /\ \E w \in Range(frame.index) : out.key.v = FormatWell(w)) =>
        /\ out.res.err = "none"
        /\ \E w \in Range(frame.index) :
            out.key.v = FormatWell(w) /\ out.res = WellAccessorGetItem(frame, Key("tuple", w))
    /\ (out.op = "series.wells[]" /\ out.key.type = "tuple"
            /\ out.key.v \in Range(series[out.on].index)) =>
        /\ out.res.err = "none"
        /\ out.res = SeriesWellsGetItem(series[out.on], Key("str", FormatWell(out.key.v)))
    /\ (out.op = "series.wells[]" /\ out.key.type = "str"
            /\ \E w \in Range(series[out.on].index) : out.key.v = FormatWell(w)) =>
        /\ out.res.err = "none"
        /\ \E w \in Range(series[out.on].index) :
            out.key.v = FormatWell(w)
            /\ out.res = SeriesWellsGetItem(series[out.on], Key("tuple", w))

C9_Witness ==
    /\ out.op = "wells[]" /\ out.key.type = "str" /\ out.key.v = <<"A", "2">>
    /\ out.res.err = "none"
    /\ out.res.obj[1].index = <<<<RowA, 2>>>>
    /\ Len(series) = 2

LookupError(e) == e \in {"KeyError", "IndexError"}

\* the well a key names is not in index (or the key names no well at all)
WellAbsent(k, index) ==
    IF k.type = "tuple" THEN k.v \notin Range(index)
    ELSE Strpwell(k).err # "none" \/ Strpwell(k).obj[1] \notin Range(index)

\* the position or label a key names is not among labels
LabelAbsent(k, labels) ==
    IF k.type = "int" THEN ~ValidPosition(labels, k.v) ELSE k.v \notin Range(labels)

\* C10: every single-key lookup through the assay, time or well accessor, TimeSeries[key]
\* and TimeSeries.wells[key] included, whose name, position, duration or well is absent
\* from the index fails at that call with a key-not-found error and returns nothing.
C10_AbsentKeyFailsAtCall ==
    /\ (out.op = "assays[]" /\ LabelAbsent(out.key, AssayIdx(frame))) => LookupError(out.res.err)
    /\ (out.op = "times[]" /\ out.key.type \in {"int", "timedelta"}
            /\ LabelAbsent(out.key, TimeIdx(frame))) => LookupError(out.res.err)
    /\ (out.op = "wells[]" /\ WellAbsent(out.key, frame.index)) => LookupError(out.res.err)
    /\ (out.op = "series[]" /\ out.key.type \in {"int", "timedelta"}
            /\ LabelAbsent(out.key, series[out.on].timepoints)) =>
        (LookupError(out.res.err) /\ out.res.obj = None)
    /\ (out.op = "series.wells[]" /\ WellAbsent(out.key, series[out.on].index)) =>
        LookupError(out.res.err)

\* what holds instead: the generic accessors and TimeSeries.wells fail at the call;
\* TimeSeries[duration] returns a TimePoint whose data access raises the KeyError
C10_DeferredForSeries ==
    /\ (out.op = "assays[]" /\ LabelAbsent(out.key, AssayIdx(frame))) => LookupError(out.res.err)
    /\ (out.op = "times[]" /\ out.key.type \in {"int", "timedelta"}
            /\ LabelAbsent(out.key, TimeIdx(frame))) => LookupError(out.res.err)
    /\ (out.op = "wells[]" /\ WellAbsent(out.key, frame.index)) => out.res.err = "KeyError"
    /\ (out.op = "series[]" /\ out.key.type = "int"
            /\ LabelAbsent(out.key, series[out.on].timepoints)) => out.res.err = "IndexError"
    /\ (out.op = "series[]" /\ out.key.type = "timedelta"
            /\ LabelAbsent(out.key, series[out.on].timepoints)) =>
        (out.res.err = "none" /\ out.res.obj[1].cls = "TimePoint")
    /\ (out.op = "timepoint.data" /\ out.key.type = "timedelta"
            /\ LabelAbsent(out.key, series[out.on].timepoints)) => out.res.err = "KeyError"
    /\ (out.op = "series.wells[]" /\ WellAbsent(out.key, series[out.on].index)) =>
        out.res.err = "KeyError"

(***************************************************************************)
(* tecan/io.py: TecanReader.  A moment (datetime) is a whole number of     *)
(* seconds, 86400 to the day.  A header cell is [kind, parses, value]:     *)
(* kind "absent" when no cell holds a value, "str" for text, "datetime"    *)
(* or "time" for the objects a spreadsheet cell can hold.  For text,       *)
(* parses[i] is what datetime.strptime gives under the i-th format of the  *)
(* list the reader tries: None when it raises ValueError.                  *)
(***************************************************************************)
Absent == [kind |-> "absent", parses |-> <<>>, value |-> 0]

StrCell(parses) == [kind |-> "str", parses |-> parses, value |-> 0]

ObjCell(kind_, v) == [kind |-> kind_, parses |-> <<>>, value |-> v]

DateFormats == <<"%m/%d/%Y", "%Y/%m/%d", "%m-%d-%Y", "%Y-%m-%d">>

TimeFormats == <<"%I:%M:%S %p", "%H:%M:%S", "%H:%M">>

TsFormats == <<"%m/%d/%Y %I:%M:%S %p", "%Y-%m-%d %H:%M:%S">>

\* the loop of _clean_datetime from the i-th format on
RECURSIVE TryFormats(_, _, _)
TryFormats(dt, formats, i) ==
    IF i > Len(formats) THEN None
    ELSE IF dt.parses[i] # None THEN dt.parses[i]
    ELSE TryFormats(dt, formats, i + 1)

\* _clean_datetime(dt, formats)
CleanDatetime(dt, formats) ==
    IF dt.kind = "str" THEN TryFormats(dt, formats, 1)
    ELSE IF dt.kind = "datetime" THEN Some(dt.value)
    ELSE None

CleanTime(t) == CleanDatetime(t, TimeFormats)

CleanDate(d) == CleanDatetime(d, DateFormats)

\* _to_time(t) of _read_header
ToTime(t) == CleanDatetime(t, TsFormats)

\* date.strftime('%Y-%m-%d '): the day of a moment
DayOf(m) == (m \div 86400) * 86400

\* time.strftime('%H:%M:%S'): the time of day of a moment
TimeOfDay(m) == m % 86400

\* _read_header(ws): (plate_metadata, instrument_metadata), or the AttributeError of
\* None.strftime when the date or the time did not resolve
ReadHeader(sh) ==
    LET date == CleanDate(sh.date)
        time == CleanTime(sh.time)
    IN  IF date = None \/ time = None THEN Fail("AttributeError")
        ELSE Ok([instrument |-> [session_start |-> Some(DayOf(date[1]) + TimeOfDay(time[1]))],
                 metadata |-> [start |-> ToTime(sh.start), end |-> ToTime(sh.end)]])

\* SingleAssay(data, metadata) if len(data.columns) == 1 else TimeSeries(data, metadata)
ReadAssay(a) ==
    IF Len(a.timepoints) = 1 THEN SingleAssayObj(a.name, a.index, a.timepoints)
    ELSE TimeSeriesObj(a.name, a.index, a.timepoints)

\* TecanReader.read(file)
TecanRead(sh) ==
    LET h == ReadHeader(sh)
    IN  IF h.err # "none" THEN Fail(h.err)
        ELSE Ok([assays |-> [i \in DOMAIN sh.assays |-> ReadAssay(sh.assays[i])],
                 metadata |-> h.obj[1].metadata,
                 instrument |-> h.obj[1].instrument])

\* Plate.timestamp
PlateTimestamp(p) == p.instrument.session_start

(***************************************************************************)
(* Reading a sheet and indexing the plate it gives.                        *)
(***************************************************************************)
\* the texts of a cell: for every set of formats, the text those formats parse,
\* the i-th format reading it as moments[i]
StrCells(moments) ==
    {StrCell([i \in DOMAIN moments |-> IF i \in S THEN Some(moments[i]) ELSE None]) :
        S \in SUBSET (DOMAIN moments)}

DateCells ==
    StrCells(<<1 * 86400, 2 * 86400, 3 * 86400, 4 * 86400>>)
    \cup {Absent, ObjCell("datetime", 5 * 86400 + 7)}

TimeCells ==
    StrCells(<<10, 20, 30>>) \cup {Absent, ObjCell("datetime", 9 * 86400 + 40), ObjCell("time", 50)}

TsCells == StrCells(<<100, 200>>) \cup {Absent, ObjCell("datetime", 300)}

\* the assay tables of the sheet: one read of one column, or one kinetic read
SheetAssays ==
    {<<[name |-> "Lum", index |-> <<<<RowA, 1>>>>, timepoints |-> tp]>> : tp \in {<<0>>, <<0, 30>>}}

SheetInputs ==
    {[date |-> d, time |-> t, start |-> st, end |-> en, assays |-> a] :
        d \in DateCells, t \in TimeCells, st \in TsCells, en \in TsCells, a \in SheetAssays}

InitRead ==
    /\ CorrIdle
    /\ LazyIdle
    /\ AccIdle
    /\ sheet \in {Some(sh) : sh \in SheetInputs}
    /\ plate = None
    /\ rawmeta = None /\ emeta = None
    /\ loaded = None /\ experiment = None
    /\ arg = None /\ val = None

\* plate = TecanReader.read(file)
TecanReaderRead ==
    /\ sheet # None /\ plate = None
    /\ plate' = Some(TecanRead(sheet[1]))
    /\ UNCHANGED <<sheet, rawmeta, emeta, loaded, experiment, arg, val>>
    /\ UNCHANGED <<corrVars, accVars, lazyVars>>

\* the plate was read
WasRead == plate # None /\ plate[1].err = "none"

\* the moments asked for: the session start and moments after it
MomentKeys(p) == {Key("datetime", PlateTimestamp(p)[1] + d) : d \in {0, 15, 30}}

\* plate.assays[name][t] for an absolute timestamp t, on a kinetic read of the plate
ReadSeriesGetItem ==
    /\ WasRead /\ out.op = "none"
    /\ \E a \in DOMAIN plate[1].obj[1].assays : \E k \in MomentKeys(plate[1].obj[1]) :
        /\ plate[1].obj[1].assays[a].cls = "TimeSeries"
        /\ Called("series[]", a, k, TimeSeriesGetItem(plate[1].obj[1].assays[a], k))
    /\ UNCHANGED <<series, frame>>
    /\ UNCHANGED <<corrVars, extVars, lazyVars>>

\* the time accessor over the reads of the plate, for an absolute timestamp t
ReadTimeGetItem ==
    /\ WasRead /\ out.op = "none"
    /\ \E k \in MomentKeys(plate[1].obj[1]) :
        Called("times[]", 0, k, TimeAccessorGetItem(PlateData(plate[1].obj[1].assays), k))
    /\ UNCHANGED <<series, frame>>
    /\ UNCHANGED <<corrVars, extVars, lazyVars>>

\* slices between positions, durations and moments after the session start
MomentSlices(p) ==
    {SliceKey(a, b, c) :
        a \in {NoBound, Key("int", 0), Key("datetime", PlateTimestamp(p)[1])},
        b \in {NoBound, Key("timedelta", 30), Key("datetime", PlateTimestamp(p)[1] + 30)},
        c \in {NoBound, Key("int", 1)}}

\* plate.assays[name][start:stop:step] on a kinetic read of the plate
ReadSeriesGetSlice ==
    /\ WasRead /\ out.op = "none"
    /\ \E a \in DOMAIN plate[1].obj[1].assays : \E k \in MomentSlices(plate[1].obj[1]) :
        /\ plate[1].obj[1].assays[a].cls = "TimeSeries"
        /\ Called("series[:]", a, k, TimeSeriesGetSlice(plate[1].obj[1].assays[a], k))
    /\ UNCHANGED <<series, frame>>
    /\ UNCHANGED <<corrVars, extVars, lazyVars>>

\* the time accessor over the reads of the plate, for a slice
ReadTimeGetSlice ==
    /\ WasRead /\ out.op = "none"
    /\ \E k \in MomentSlices(plate[1].obj[1]) :
        Called("times[:]", 0, k, TimeAccessorGetSlice(PlateData(plate[1].obj[1].assays), k))
    /\ UNCHANGED <<series, frame>>
    /\ UNCHANGED <<corrVars, extVars, lazyVars>>

NextRead ==
    \/ TecanReaderRead
    \/ ReadSeriesGetItem
    \/ ReadTimeGetItem
    \/ ReadSeriesGetSlice
    \/ ReadTimeGetSlice

SpecRead == InitRead /\ [][NextRead]_vars

\* C11: indexing the time axis with an absolute timestamp gives the data at the
\* timestamp minus the reference whenever the series belongs to a plate that has a
\* session start, as every series of a plate TecanReader.read returned does.
C11_TimestampResolves ==
    (WasRead /\ out.op = "series[]" /\ out.key.type = "datetime"
        /\ PlateTimestamp(plate[1].obj[1]) # None) =>
        /\ out.res.err = "none"
        /\ out.res.obj[1].t = Key("timedelta", out.key.v - PlateTimestamp(plate[1].obj[1])[1])

\* what holds instead: no series and no accessor has a reference, whatever the plate
C11_NeverResolves ==
    (out.op \in {"series[]", "times[]"} /\ out.key.type = "datetime") =>
        out.res.err = "ValueError"

C11_Reached ==
    /\ WasRead /\ out.op = "series[]" /\ out.key.type = "datetime"
    /\ PlateTimestamp(plate[1].obj[1]) = Some(86400 + 10)
    /\ out.key.v = 86400 + 10 + 30

\* the duration a bound of a slice stands for by the rules of a single key: an absent
\* bound stays open, a position is the time at that position, a duration is itself,
\* an absolute timestamp is the timestamp minus the reference ref
BoundDuration(b, times, ref) ==
    IF b.type = "none" THEN b
    ELSE IF b.type = "int" THEN Key("timedelta", AtPosition(times, b.v))
    ELSE IF b.type = "datetime" THEN Key("timedelta", b.v - ref)
    ELSE b

SliceDurations(k, times, ref) ==
    SliceKey(BoundDuration(k.v[1], times, ref), BoundDuration(k.v[2], times, ref),
             BoundDuration(k.v[3], times, ref))

\* every position among the bounds of the slice is valid
BoundsValid(k, times) ==
    \A i \in 1..3 : k.v[i].type = "int" => ValidPosition(times, k.v[i].v)

HasMoment(k) == \E i \in 1..3 : k.v[i].type = "datetime"

\* C12: each present bound of a slice on the time axis is coerced independently by the
\* rules of a single key (position, duration, timestamp minus reference), an absent
\* bound stays open; for slicing a TimeSeries and for the generic time accessor.
C12_BoundsCoerced ==
    /\ (WasRead /\ out.op = "series[:]"
            /\ BoundsValid(out.key, plate[1].obj[1].assays[out.on].timepoints)) =>
        /\ out.res.err = "none"
        /\ out.res.obj[1]._slice =
                SliceDurations(out.key, plate[1].obj[1].assays[out.on].timepoints,
                               PlateTimestamp(plate[1].obj[1])[1])
    /\ (WasRead /\ out.op = "times[:]" /\ ~HasMoment(out.key)
            /\ BoundsValid(out.key, TimeIdx(PlateData(plate[1].obj[1].assays)))) =>
        out.res = TimeAccessorGetSlice(PlateData(plate[1].obj[1].assays),
                    SliceDurations(out.key, TimeIdx(PlateData(plate[1].obj[1].assays)), 0))

\* what holds instead: positions and durations are coerced as the claim says, and a
\* slice with an absolute timestamp among its bounds always fails
C12_PositionsAndDurations ==
    /\ (WasRead /\ out.op = "series[:]" /\ ~HasMoment(out.key)
            /\ BoundsValid(out.key, plate[1].obj[1].assays[out.on].timepoints)) =>
        /\ out.res.err = "none"
        /\ out.res.obj[1]._slice =
                SliceDurations(out.key, plate[1].obj[1].assays[out.on].timepoints, 0)
    /\ (WasRead /\ out.op = "times[:]" /\ ~HasMoment(out.key)
            /\ BoundsValid(out.key, TimeIdx(PlateData(plate[1].obj[1].assays)))) =>
        out.res = TimeAccessorGetSlice(PlateData(plate[1].obj[1].assays),
                    SliceDurations(out.key, TimeIdx(PlateData(plate[1].obj[1].assays)), 0))
    /\ (out.op = "series[:]" /\ HasMoment(out.key)) => out.res.err = "IndexError"
    /\ (out.op = "times[:]" /\ HasMoment(out.key)) => out.res.err = "ValueError"

(***************************************************************************)
(* Calls of base/util.py.  arg is [fn, x]: the function called first and   *)
(* its argument; val is [step, res]: the result of the first call, then    *)
(* (step 2) of the inverse function applied to that result.                *)
(***************************************************************************)
MaxLetters == 2

MaxDigits == 2

\* the texts of 1..n characters of set
Texts(set, n) == UNION {[1..len -> set] : len \in 1..n}

WellDigits == {"0", "1", "2"}

\* well notation and what is not: letters, digits and a tail, each possibly missing
WellTexts ==
    {l \o d \o t : l \in Texts(Letters, MaxLetters) \cup {<<>>},
                   d \in Texts(WellDigits, MaxDigits) \cup {<<>>},
                   t \in {<<>>, <<"-">>, <<"A">>}}

\* durations by their days, hours, minutes and seconds
DeltaInputs ==
    {86400 * days + 3600 * h + 60 * mi + sec :
        days \in {0, 1}, h \in {0, 1, 2}, mi \in {0, 1, 59}, sec \in {0, 5, 10, 59}}

\* the text of one component of the duration notation, none when it is absent
Part(n, u) == IF n = NA THEN <<>> ELSE Decimal(n) \o <<u>>

\* the notation [<D>d][<H>h][<M>m][<S>s], by the numbers it spells (NA: absent)
DeltaSpellings ==
    {[D |-> days, H |-> h, M |-> mi, S |-> sec] :
        days \in {NA, 1, 12}, h \in {NA, 0, 23}, mi \in {NA, 5, 30}, sec \in {NA, 0, 5, 10}}

Spell(n) == Part(n.D, "d") \o Part(n.H, "h") \o Part(n.M, "m") \o Part(n.S, "s")

Call(fn, x) == [fn |-> fn, x |-> x]

Returned(step, res) == val' = Some([step |-> step, res |-> res])

InitUtil ==
    /\ CorrIdle
    /\ LazyIdle
    /\ AccIdle
    /\ sheet = None /\ plate = None
    /\ rawmeta = None /\ emeta = None
    /\ loaded = None /\ experiment = None
    /\ \/ arg \in {Some(Call("strpwell", Key("str", w))) : w \in WellTexts}
       \/ arg \in {Some(Call("strpwell", Key("int", 1)))}
       \/ arg \in {Some(Call("strffdelta", Key("timedelta", d))) : d \in DeltaInputs}
       \/ arg \in {Some(Call("strpdelta", Key("str", Spell(n)))) : n \in DeltaSpellings}
    /\ val = None

\* strpwell(w)
CallStrpwell ==
    /\ arg # None /\ arg[1].fn = "strpwell" /\ val = None
    /\ Returned(1, Strpwell(arg[1].x))
    /\ UNCHANGED <<sheet, plate, rawmeta, emeta, loaded, experiment, arg>>
    /\ UNCHANGED <<corrVars, accVars, lazyVars>>

\* the notation of the well strpwell returned
CallFormatWell ==
    /\ arg # None /\ arg[1].fn = "strpwell"
    /\ val # None /\ val[1].step = 1 /\ val[1].res.err = "none"
    /\ Returned(2, Ok(Key("str", FormatWell(val[1].res.obj[1]))))
    /\ UNCHANGED <<sheet, plate, rawmeta, emeta, loaded, experiment, arg>>
    /\ UNCHANGED <<corrVars, accVars, lazyVars>>

\* strffdelta(td)
CallStrffdelta ==
    /\ arg # None /\ arg[1].fn = "strffdelta" /\ val = None
    /\ Returned(1, Ok(Key("str", Strffdelta(arg[1].x.v))))
    /\ UNCHANGED <<sheet, plate, rawmeta, emeta, loaded, experiment, arg>>
    /\ UNCHANGED <<corrVars, accVars, lazyVars>>

\* strpdelta(s), of a text or of the text strffdelta returned
CallStrpdelta ==
    /\ arg # None
    /\ \/ /\ arg[1].fn = "strpdelta" /\ val = None
          /\ Returned(1, Strpdelta(arg[1].x))
       \/ /\ arg[1].fn = "strffdelta" /\ val # None /\ val[1].step = 1
          /\ Returned(2, Strpdelta(val[1].res.obj[1]))
    /\ UNCHANGED <<sheet, plate, rawmeta, emeta, loaded, experiment, arg>>
    /\ UNCHANGED <<corrVars, accVars, lazyVars>>

NextUtil ==
    \/ CallStrpwell
    \/ CallFormatWell
    \/ CallStrffdelta
    \/ CallStrpdelta

SpecUtil == InitUtil /\ [][NextUtil]_vars

\* s matches ^[A-Za-z]+[0-9]+$ in full
IsWellText(s) ==
    LET row == TakeWhile(s, Letters)
        rest == SubSeq(s, Len(row) + 1, Len(s))
    IN  row # <<>> /\ rest # <<>> /\ \A i \in DOMAIN rest : rest[i] \in Digits

\* the digits of a well text
ColumnDigits(s) == SubSeq(s, Len(TakeWhile(s, Letters)) + 1, Len(s))

Upper(c) == CASE c = "a" -> "A" [] c = "b" -> "B" [] OTHER -> c

\* s with its letters in upper case
Normalized(s) == [i \in DOMAIN s |-> Upper(s[i])]

WellCall == arg # None /\ arg[1].fn = "strpwell" /\ arg[1].x.type = "str"

\* C13: for every well string s matching ^[A-Za-z]+[0-9]+$, formatting the parsed well
\* gives back s after case-normalizing the row letters.
C13_RoundTrip ==
    (WellCall /\ IsWellText(arg[1].x.v) /\ val # None) =>
        /\ val[1].res.err = "none"
        /\ val[1].step = 2 => Normalized(val[1].res.obj[1].v) = Normalized(arg[1].x.v)

\* the column digits are the decimal writing of a number: no zero before other digits
NoLeadingZero(s) == Len(ColumnDigits(s)) = 1 \/ ColumnDigits(s)[1] # "0"

\* C13 as amended: the round trip holds for the well strings whose column digits
\* carry no leading zero.
C13_RoundTripNoLeadingZero ==
    (WellCall /\ IsWellText(arg[1].x.v) /\ NoLeadingZero(arg[1].x.v) /\ val # None) =>
        /\ val[1].res.err = "none"
        /\ val[1].step = 2 => Normalized(val[1].res.obj[1].v) = Normalized(arg[1].x.v)

C13_Witness ==
    /\ WellCall /\ arg[1].x.v = <<"b", "1", "2">>
    /\ val # None /\ val[1].step = 2
    /\ val[1].res.obj[1].v = <<"b", "1", "2">>

DeltaCall == arg # None /\ arg[1].fn = "strffdelta"

\* C14: for every non-negative whole-second duration d, strpdelta(strffdelta(d)) = d.
C14_DeltaRoundTrip ==
    (DeltaCall /\ val # None /\ val[1].step = 2) =>
        /\ val[1].res.err = "none"
        /\ val[1].res.obj[1].v = arg[1].x.v

\* what holds instead: the round trip holds when the seconds are zero or take two
\* digits and the duration is neither exactly a minute nor exactly an hour
C14_RoundTripWhere ==
    (DeltaCall /\ val # None /\ val[1].step = 2
        /\ (arg[1].x.v % 60 = 0 \/ arg[1].x.v % 60 >= 10) /\ arg[1].x.v \notin {60, 3600}) =>
        /\ val[1].res.err = "none"
        /\ val[1].res.obj[1].v = arg[1].x.v

\* the number a component spells, zero when it is absent
Spelled(n) == IF n = NA THEN 0 ELSE n

\* C15: for every string of the notation [<D>d][<H>h][<M>m][<S>s], each component
\* optional, strpdelta returns D days + H hours + M minutes + S seconds, absent
\* components counting as zero, a seconds component of a single digit included.
C15_SpelledValue ==
    (arg # None /\ arg[1].fn = "strpdelta" /\ val # None) =>
        \A n \in DeltaSpellings : Spell(n) = arg[1].x.v =>
            /\ val[1].res.err = "none"
            /\ val[1].res.obj[1].v = 86400 * Spelled(n.D) + 3600 * Spelled(n.H)
                                        + 60 * Spelled(n.M) + Spelled(n.S)

\* what holds instead: a seconds component of one digit counts as zero
C15_SingleDigitSecondsLost ==
    (arg # None /\ arg[1].fn = "strpdelta" /\ val # None) =>
        \A n \in DeltaSpellings : Spell(n) = arg[1].x.v =>
            /\ val[1].res.err = "none"
            /\ val[1].res.obj[1].v = 86400 * Spelled(n.D) + 3600 * Spelled(n.H)
                                        + 60 * Spelled(n.M)
                                        + (IF n.S >= 10 THEN n.S ELSE 0)

\* C16: strpwell raises KeyError for every input that is not a string matching
\* ^[A-Za-z]+[0-9]+$ in full, and returns (letters, integer column) for every one
\* that is.
C16_MalformedIsKeyError ==
    (arg # None /\ arg[1].fn = "strpwell" /\ val # None /\ val[1].step = 1) =>
        IF arg[1].x.type = "str" /\ IsWellText(arg[1].x.v)
        THEN val[1].res = Ok(<<TakeWhile(arg[1].x.v, Letters), ParseInt(ColumnDigits(arg[1].x.v), 0)>>)
        ELSE val[1].res.err = "KeyError"

\* what holds instead: strpwell reads the longest prefix of letters and digits and
\* ignores what follows it
C16_PrefixIsParsed ==
    (WellCall /\ val # None /\ val[1].step = 1) =>
        LET row == TakeWhile(arg[1].x.v, Letters)
            column == TakeWhile(ColumnDigits(arg[1].x.v), Digits)
        IN  IF row # <<>> /\ column # <<>>
            THEN val[1].res.err = "none" /\ val[1].res.obj[1] = <<row, ParseInt(column, 0)>>
            ELSE val[1].res.err = "KeyError"

\* the key is the notation, in any letter case, of a well of index
NamesWellOf(k, index) ==
    k.type = "str" /\ \E w \in Range(index) : Normalized(k.v) = FormatWell(w)

\* C17: for every well present in a table, the well accessor returns the same data
\* when the row letters of the key are in lower case as when they are in upper case.
C17_CaseInsensitive ==
    /\ (out.op = "wells[]" /\ NamesWellOf(out.key, frame.index)) =>
        /\ out.res.err = "none"
        /\ out.res = WellAccessorGetItem(frame, Key("str", Normalized(out.key.v)))
    /\ (out.op = "series.wells[]" /\ NamesWellOf(out.key, series[out.on].index)) =>
        /\ out.res.err = "none"
        /\ out.res = SeriesWellsGetItem(series[out.on], Key("str", Normalized(out.key.v)))

\* what holds instead: the row letters are looked up as written, and the rows of a
\* table are in upper case
C17_LowerCaseIsAbsent ==
    (out.op \in {"wells[]", "series.wells[]"} /\ out.key.type = "str"
        /\ out.key.v # Normalized(out.key.v)) =>
        out.res.err = "KeyError"

(***************************************************************************)
(* experiment/data.py: Experiment.__init__ and _verify.  A plate is        *)
(* [tag, wells]: which plate it is and the size of Plate.samples.  The     *)
(* metadata is its index level 'plate': the plate number of every row, in  *)
(* the sorted order ExperimentMetadata leaves; plate numbers start at 1.   *)
(***************************************************************************)
MaxPlates == 2

Warning(kind_, p, n) == [kind |-> kind_, plate |-> p, n |-> n]

\* plate_idx.max(): NaN for a table without rows
IdxMax(idx) ==
    IF idx = <<>> THEN NA ELSE CHOOSE x \in Range(idx) : \A y \in Range(idx) : y <= x

\* (plate_idx == pid).sum()
CountOf(idx, pid) == Cardinality({i \in DOMAIN idx : idx[i] = pid})

\* the body of `for pid in plate_idx.unique()` for one pid
VerifyPlate(plates_, idx, pid) ==
    IF pid <= Len(plates_)
    THEN LET n_wells_metadata == CountOf(idx, pid)
             n_wells_plate == plates_[pid].wells
         IN  IF n_wells_metadata > n_wells_plate
             THEN <<Warning("missing data", pid, n_wells_metadata - n_wells_plate)>>
             ELSE IF n_wells_metadata < n_wells_plate
             THEN <<Warning("missing metadata", pid, n_wells_plate - n_wells_metadata)>>
             ELSE <<>>
    ELSE <<>>

RECURSIVE VerifyPlates(_, _, _)
VerifyPlates(plates_, idx, pids) ==
    IF pids = <<>> THEN <<>>
    ELSE VerifyPlate(plates_, idx, Head(pids)) \o VerifyPlates(plates_, idx, Tail(pids))

\* Experiment._verify(plates, metadata): the warnings it emits
Verify(plates_, idx) ==
    (IF Len(plates_) # IdxMax(idx) THEN <<Warning("plates", IdxMax(idx), Len(plates_))>> ELSE <<>>)
    \o VerifyPlates(plates_, idx, Unique(idx))

\* Experiment(plates, metadata); a lone Plate is wrapped in a list
ExperimentNew(plates_, idx) ==
    [err |-> "none",
     obj |-> Some([_plates |-> plates_, _metadata |-> idx, _reads |-> None]),
     warnings |-> Verify(plates_, idx)]

PlateChoices == {[tag |-> t, wells |-> w] : t \in {"x", "y"}, w \in {1, 2}}

LoadedPlates == UNION {[1..n -> PlateChoices] : n \in 0..MaxPlates}

\* the plate level of a metadata index: rows[p] rows for plate p, plates in order
RECURSIVE PlateLevel(_, _)
PlateLevel(rows, p) ==
    IF p > Len(rows) THEN <<>>
    ELSE [i \in 1..rows[p] |-> p] \o PlateLevel(rows, p + 1)

MetadataIndexes == {PlateLevel(rows, 1) : rows \in [1..(MaxPlates + 1) -> {0, 1, 2}]}

InitExperiment ==
    /\ CorrIdle
    /\ LazyIdle
    /\ AccIdle
    /\ sheet = None /\ plate = None
    /\ rawmeta = None /\ emeta = None
    /\ loaded \in {Some([plates |-> ps, metadata |-> idx, lone |-> l]) :
                        ps \in LoadedPlates, idx \in MetadataIndexes, l \in BOOLEAN}
    /\ loaded[1].lone => Len(loaded[1].plates) = 1
    /\ experiment = None
    /\ arg = None /\ val = None

\* experiment = Experiment(plates, metadata)
NewExperiment ==
    /\ loaded # None /\ experiment = None
    /\ experiment' = Some(ExperimentNew(loaded[1].plates, loaded[1].metadata))
    /\ UNCHANGED <<sheet, plate, rawmeta, emeta, loaded, arg, val>>
    /\ UNCHANGED <<corrVars, accVars, lazyVars>>

\* experiment.plates
GetPlates ==
    /\ experiment # None /\ experiment[1].err = "none" /\ val = None
    /\ val' = Some([step |-> 1, res |-> Ok(experiment[1].obj[1]._plates)])
    /\ UNCHANGED <<sheet, plate, rawmeta, emeta, loaded, experiment, arg>>
    /\ UNCHANGED <<corrVars, accVars, lazyVars>>

NextExperiment ==
    \/ NewExperiment
    \/ GetPlates

SpecExperiment == InitExperiment /\ [][NextExperiment]_vars

\* the plates loaded and the plate numbers of the metadata disagree
PlateCountDiffers == Len(loaded[1].plates) # IdxMax(loaded[1].metadata)

\* the i-th plate has another number of wells than the metadata has rows for it
WellCountDiffers(i) == loaded[1].plates[i].wells # CountOf(loaded[1].metadata, i)

Warned(kinds, p) ==
    \E i \in DOMAIN experiment[1].warnings :
        experiment[1].warnings[i].kind \in kinds /\ experiment[1].warnings[i].plate = p

\* C18: constructing an Experiment never fails because of a count mismatch: when the
\* number of plates differs from the largest plate number of the metadata, or the well
\* count of a plate differs from its metadata row count, a warning is emitted, and
\* the Experiment holds exactly the supplied plates in the supplied order.
C18_WarnsNeverFails ==
    experiment # None =>
        /\ experiment[1].err = "none"
        /\ experiment[1].obj[1]._plates = loaded[1].plates
        /\ (PlateCountDiffers \/ \E i \in DOMAIN loaded[1].plates : WellCountDiffers(i))
               => experiment[1].warnings # <<>>
        /\ val # None => val[1].res.obj[1] = loaded[1].plates

\* what holds instead: the well counts are compared for the plates that have rows in
\* the metadata only
C18_WarnsForListedPlates ==
    experiment # None =>
        /\ experiment[1].err = "none"
        /\ experiment[1].obj[1]._plates = loaded[1].plates
        /\ PlateCountDiffers => Warned({"plates"}, IdxMax(loaded[1].metadata))
        /\ \A i \in DOMAIN loaded[1].plates :
                (WellCountDiffers(i) /\ CountOf(loaded[1].metadata, i) > 0)
                    => Warned({"missing data", "missing metadata"}, i)
        /\ val # None => val[1].res.obj[1] = loaded[1].plates

(***************************************************************************)
(* experiment/data.py: ExperimentMetadata.__init__.  A raw table is a      *)
(* sequence of rows [plate, wells]: the plate number and the cells of the  *)
(* well column(s): one cell when the table has a column 'well', several    *)
(* when it has columns like 'well 1', 'well 2'.  A cell is NaN or a text.  *)
(* The other columns of a row are stood for by the row's position.         *)
(***************************************************************************)
MaxRows == 2

NaNCell == Key("nan", <<>>)
TextCell(s) == Key("str", s)

\* raw.melt(id_vars=columns, value_vars=wells): one row per well cell, well column
\* after well column, under a new RangeIndex
RECURSIVE Melt(_, _)
Melt(raw, j) ==
    IF raw = <<>> \/ j > Len(raw[1].wells) THEN <<>>
    ELSE [i \in DOMAIN raw |-> [plate |-> raw[i].plate, well |-> raw[i].wells[j]]]
         \o Melt(raw, j + 1)

UpperLetters == {"A", "B", "C", "N", "T"}

\* re.search('([A-Z]+)([0-9]+)', s): the leftmost upper-case letters followed by digits
RECURSIVE Extract(_)
Extract(s) ==
    IF s = <<>> THEN None
    ELSE LET row == TakeWhile(s, UpperLetters)
             column == TakeWhile(SubSeq(s, Len(row) + 1, Len(s)), Digits)
         IN  IF row # <<>> /\ column # <<>> THEN Some(<<row, column>>)
             ELSE Extract(Tail(s))

\* raw['well'].str.extract(...): NaN for a missing well and where nothing matches
ExtractCell(c) == IF c.type = "str" THEN Extract(c.v) ELSE None

\* the join with the extracted columns, without the rows whose well is missing;
\* label is the row's place in the (melted) raw table
JoinExtracted(melted) ==
    SelectSeq([i \in DOMAIN melted |->
                  [plate |-> melted[i].plate, well |-> melted[i].well,
                   parsed |-> ExtractCell(melted[i].well), label |-> i]],
              LAMBDA r : r.well.type # "nan")

LetterRank(c) == CASE c = "A" -> 1 [] c = "B" -> 2 [] c = "C" -> 3 [] c = "N" -> 14 [] OTHER -> 20

\* str < str for texts of upper-case letters
RECURSIVE TextLess(_, _)
TextLess(a, b) ==
    IF b = <<>> THEN FALSE
    ELSE IF a = <<>> THEN TRUE
    ELSE IF Head(a) # Head(b) THEN LetterRank(Head(a)) < LetterRank(Head(b))
    ELSE TextLess(Tail(a), Tail(b))

\* the order of the index (plate, row, column)
IndexLess(r1, r2) ==
    \/ r1.plate < r2.plate
    \/ r1.plate = r2.plate /\ TextLess(r1.row, r2.row)
    \/ r1.plate = r2.plate /\ r1.row = r2.row /\ r1.column < r2.column

RECURSIVE InsertRow(_, _)
InsertRow(sorted, r) ==
    IF sorted = <<>> THEN <<r>>
    ELSE IF IndexLess(r, Head(sorted)) THEN <<r>> \o sorted
    ELSE <<Head(sorted)>> \o InsertRow(Tail(sorted), r)

\* set_index(['plate', 'row', 'column']).sort_index()
RECURSIVE SortRowsFrom(_, _)
SortRowsFrom(rs, acc) ==
    IF rs = <<>> THEN acc
    ELSE SortRowsFrom(Tail(rs), InsertRow(acc, Head(rs)))

\* the plates 1..max that no row names, warned about when there is one
MissingPlates(rs) ==
    LET named == {rs[i].plate : i \in DOMAIN rs}
        top == CHOOSE x \in named : \A y \in named : y <= x
    IN  (1..top) \ named

\* ExperimentMetadata(raw).  astype(int) raises ValueError for a column that is NaN;
\* a table left without rows has no largest plate number (idx.max() is NaN), and
\* listing the missing plates raises (range(1, nan + 1): TypeError).
ExperimentMetadataNew(raw) ==
    LET joined == JoinExtracted(Melt(raw, 1))
    IN  IF \E i \in DOMAIN joined : joined[i].parsed = None
        THEN [err |-> "ValueError", obj |-> None, warnings |-> <<>>]
        ELSE IF joined = <<>>
        THEN [err |-> "TypeError", obj |-> None, warnings |-> <<>>]
        ELSE LET typed == [i \in DOMAIN joined |->
                              [plate |-> joined[i].plate,
                               row |-> joined[i].parsed[1][1],
                               column |-> ParseInt(joined[i].parsed[1][2], 0),
                               label |-> joined[i].label]]
                 sorted == SortRowsFrom(typed, <<>>)
             IN  [err |-> "none", obj |-> Some(sorted),
                  warnings |-> IF MissingPlates(sorted) # {}
                               THEN <<[kind |-> "plates missing", plates |-> MissingPlates(sorted)]>>
                               ELSE <<>>]

\* well cells: missing, well-formed, lower case, with zeros, with other characters
WellCells ==
    {NaNCell} \cup {TextCell(t) : t \in
        {<<"A", "1">>, <<"B", "2">>, <<"A", "0", "1">>, <<"A", "B", "1", "2">>,
         <<"a", "1">>, <<"a", "B", "2">>, <<"A", "1", "-">>, <<"-", "A", "1">>,
         <<"A">>, <<"1">>, <<"1", "A">>, <<>>}}

WideCells == {NaNCell, TextCell(<<"A", "1">>), TextCell(<<"B", "2">>), TextCell(<<"a", "1">>)}

NarrowRows == {[plate |-> p, wells |-> <<c>>] : p \in {1, 2}, c \in WellCells}

WideRows == {[plate |-> p, wells |-> <<c, d>>] : p \in {1, 2}, c \in WideCells, d \in WideCells}

RawTables ==
    UNION {[1..n -> NarrowRows] : n \in 0..MaxRows}
    \cup UNION {[1..n -> WideRows] : n \in 1..MaxRows}

InitExperimentMetadata ==
    /\ CorrIdle
    /\ LazyIdle
    /\ AccIdle
    /\ sheet = None /\ plate = None
    /\ rawmeta \in {Some(t) : t \in RawTables}
    /\ emeta = None
    /\ loaded = None /\ experiment = None
    /\ arg = None /\ val = None

\* metadata = ExperimentMetadata(raw)
NewExperimentMetadata ==
    /\ rawmeta # None /\ emeta = None
    /\ emeta' = Some(ExperimentMetadataNew(rawmeta[1]))
    /\ UNCHANGED <<sheet, plate, rawmeta, loaded, experiment, arg, val>>
    /\ UNCHANGED <<corrVars, accVars, lazyVars>>

NextExperimentMetadata == NewExperimentMetadata

SpecMetadata == InitExperimentMetadata /\ [][NextExperimentMetadata]_vars

\* the rows of the raw table, one per well cell
RawRows == Melt(rawmeta[1], 1)

\* the places of the raw rows that the built table keeps
KeptLabels == {emeta[1].obj[1][i].label : i \in DOMAIN emeta[1].obj[1]}

\* the row of the built table that came from raw row i
KeptRow(i) == CHOOSE r \in Range(emeta[1].obj[1]) : r.label = i

\* the cell is a text in well notation, ^[A-Za-z]+[0-9]+$
ParsesAsWell(c) == c.type = "str" /\ IsWellText(c.v)

\* C19: building the metadata table never fails; it drops every row whose well is
\* missing or is not in well notation, and keeps every row whose well is, indexed by
\* (plate, row, column) as the well notation reads it.
C19_DropsUnparseable ==
    emeta # None =>
        /\ emeta[1].err = "none"
        /\ KeptLabels = {i \in DOMAIN RawRows : ParsesAsWell(RawRows[i].well)}
        /\ \A i \in KeptLabels :
               /\ KeptRow(i).plate = RawRows[i].plate
               /\ KeptRow(i).row = Normalized(TakeWhile(RawRows[i].well.v, Letters))
               /\ KeptRow(i).column = ParseInt(ColumnDigits(RawRows[i].well.v), 0)

\* what holds instead: only the rows whose well is missing are dropped; a well text
\* without upper-case letters followed by digits makes the construction fail, as
\* does a table left without rows; the rows kept are indexed by the first such
\* letters and digits of the text, in the order of the index
C19_DropsMissingOnly ==
    emeta # None =>
        LET present == {i \in DOMAIN RawRows : RawRows[i].well.type = "str"}
        IN  IF \E i \in present : Extract(RawRows[i].well.v) = None
            THEN emeta[1].err = "ValueError"
            ELSE IF present = {} THEN emeta[1].err = "TypeError"
            ELSE /\ emeta[1].err = "none"
                 /\ KeptLabels = present
                 /\ Len(emeta[1].obj[1]) = Cardinality(present)
                 /\ \A i \in present :
                        /\ KeptRow(i).plate = RawRows[i].plate
                        /\ KeptRow(i).row = Extract(RawRows[i].well.v)[1][1]
                        /\ KeptRow(i).column = ParseInt(Extract(RawRows[i].well.v)[1][2], 0)
                 /\ \A j \in 1..(Len(emeta[1].obj[1]) - 1) :
                        ~IndexLess(emeta[1].obj[1][j + 1], emeta[1].obj[1][j])

\* what the claim asks of a header cell: the moment the first format that parses the
\* text gives, the moment a datetime cell holds, and nothing otherwise
Resolved(c) ==
    IF c.kind = "str" /\ \E i \in DOMAIN c.parses : c.parses[i] # None
    THEN c.parses[CHOOSE i \in DOMAIN c.parses :
                      /\ c.parses[i] # None
                      /\ \A j \in 1..(i - 1) : c.parses[j] = None]
    ELSE IF c.kind = "datetime" THEN Some(c.value)
    ELSE None

\* the session start the header's date and time give, when both resolve
SessionStart(sh) ==
    IF Resolved(sh.date) = None \/ Resolved(sh.time) = None THEN None
    ELSE Some(DayOf(Resolved(sh.date)[1]) + TimeOfDay(Resolved(sh.time)[1]))

\* C20: reading a sheet whose Date:, Time:, Start Time or End Time value is absent or
\* matches none of the known formats does not fail: the formats are tried in order,
\* the first that parses is used, and a value none parses gives an absent timestamp
\* in the plate and instrument metadata.
C20_AbsentNotFailure ==
    plate # None =>
        /\ plate[1].err = "none"
        /\ plate[1].obj[1].metadata.start = Resolved(sheet[1].start)
        /\ plate[1].obj[1].metadata.end = Resolved(sheet[1].end)
        /\ plate[1].obj[1].instrument.session_start = SessionStart(sheet[1])

\* what holds instead: Start Time and End Time degrade to absent timestamps, while a
\* Date: or Time: value that does not resolve makes the read fail
C20_DateAndTimeRequired ==
    plate # None =>
        IF SessionStart(sheet[1]) = None
        THEN plate[1].err = "AttributeError"
        ELSE /\ plate[1].err = "none"
             /\ plate[1].obj[1].metadata.start = Resolved(sheet[1].start)
             /\ plate[1].obj[1].metadata.end = Resolved(sheet[1].end)
             /\ plate[1].obj[1].instrument.session_start = SessionStart(sheet[1])

(***************************************************************************)
(* tecan/io.py: the data blocks of a sheet.  A worksheet is the sequence   *)
(* of its rows, ws[r] the row openpyxl numbers r; a row is [a, cells]: the *)
(* cell of column A and the cells of the columns B, C, ...  A cell is      *)
(* empty, a number or a text (a sequence of characters).  The rows of a    *)
(* sheet are as wide as the block that is read.  Numbers are whole and not *)
(* negative; NA stands for NaN and NaT, PosInf for numpy's inf.  The table *)
(* a block gives is [read, index, columns, values]; read is the set of the *)
(* sheet rows that pd.read_excel was made to read for it.                  *)
(***************************************************************************)
EmptyCell == [kind |-> "empty", n |-> 0, s |-> <<>>]
NumberCell(n) == [kind |-> "num", n |-> n, s |-> <<>>]
WordCell(s) == [kind |-> "str", n |-> 0, s |-> s]

SheetRow(a, cells) == [a |-> a, cells |-> cells]

PosInf == -2

CycleNr == <<"C", "y", "c", "l", "e", " ", "N", "r", ".">>
EndpointMarker == <<"<", ">">>
Over == <<"O", "V", "E", "R">>

\* cell.value == text
IsText(c, text) == c.kind = "str" /\ c.s = text

\* _find_assays(ws): the rows of the markers, in sheet order
FindAssays(ws) ==
    SelectSeq([r \in DOMAIN ws |-> r],
              LAMBDA r : IsText(ws[r].a, CycleNr) \/ IsText(ws[r].a, EndpointMarker))

\* .replace('OVER', np.inf).apply(pd.to_numeric, errors='coerce') on one cell
ToNumeric(c) ==
    IF c.kind = "num" THEN c.n
    ELSE IF c.kind = "str" /\ c.s = Over THEN PosInf
    ELSE IF c.kind = "str" /\ c.s # <<>> /\ \A i \in DOMAIN c.s : c.s[i] \in Digits
    THEN ParseInt(c.s, 0)
    ELSE NA

\* pd.to_timedelta(x, unit='S'): NaT where there is no finite number
ToTimedelta(x) == IF x = NA \/ x = PosInf THEN NA ELSE x

\* the rows pd.read_excel(file, skiprows=cell.row-1, index_col=0, nrows=nrows) gives
\* under the header row cell.row, with nrows = last.row - cell.row; last = 0 is None
ExcelSpan(ws, cell, last) ==
    (cell + 1)..(IF last = 0 \/ last > Len(ws) THEN Len(ws) ELSE last)

\* those rows, the frame raw of _read_assay
ExcelRows(ws, cell, last) == [i \in 1..Cardinality(ExcelSpan(ws, cell, last)) |-> ws[cell + i]]

\* str(label) matches [A-Z]{1,2}[0-9]{1,3} at its start
MatchesWell(c) ==
    /\ c.kind = "str"
    /\ \E k \in {1, 2} :
          /\ Len(c.s) > k
          /\ \A i \in 1..k : c.s[i] \in UpperLetters
          /\ c.s[k + 1] \in Digits

\* a read that drops the columns without a temperature instead
KeepColumnByTemperature(col) == col.temperature # NA

\* a column stays unless its label is among columns[np.isnat(time level)]
KeepColumn(col) == col.time # NA

\* the Cycle Nr. branch of _read_assay
ReadKinetic(ws, cell, last) ==
    LET body == ExcelRows(ws, cell, last)
        header == ws[cell].cells
    IN  IF Len(body) < 2 THEN Fail("IndexError")
        ELSE IF \E j \in DOMAIN header : header[j].kind # "num" THEN Fail("ValueError")
        ELSE
        LET name == ws[cell - 1].a.s
            times == [j \in DOMAIN header |-> ToTimedelta(ToNumeric(body[1].cells[j]))]
            temps == [j \in DOMAIN header |-> ToNumeric(body[2].cells[j])]
            data == SelectSeq(body, LAMBDA r : MatchesWell(r.a))
            index == [i \in DOMAIN data |->
                         <<Extract(data[i].a.s)[1][1], ParseInt(Extract(data[i].a.s)[1][2], 0)>>]
            columns == [j \in DOMAIN header |->
                           [cycle |-> header[j].n, label |-> name,
                            time |-> times[j], temperature |-> temps[j], at |-> j]]
            kept == SelectSeq(columns, KeepColumn)
        IN  Ok([read |-> ExcelSpan(ws, cell, last),
                index |-> index,
                columns |-> [j \in DOMAIN kept |->
                                [cycle |-> kept[j].cycle, label |-> kept[j].label,
                                 time |-> kept[j].time, temperature |-> kept[j].temperature]],
                values |-> [i \in DOMAIN data |->
                               [j \in DOMAIN kept |-> ToNumeric(data[i].cells[kept[j].at])]]])

\* str.replace(old, ''): s without the occurrences of old
RECURSIVE Replace(_, _)
Replace(s, old) ==
    IF Len(s) < Len(old) THEN s
    ELSE IF SubSeq(s, 1, Len(old)) = old THEN Replace(SubSeq(s, Len(old) + 1, Len(s)), old)
    ELSE <<Head(s)>> \o Replace(Tail(s), old)

RECURSIVE LStrip(_)
LStrip(s) == IF s # <<>> /\ Head(s) = " " THEN LStrip(Tail(s)) ELSE s

RECURSIVE RStrip(_)
RStrip(s) == IF s # <<>> /\ s[Len(s)] = " " THEN RStrip(SubSeq(s, 1, Len(s) - 1)) ELSE s

\* float(s) for the writing of a whole number, blanks around it allowed
Float(s) ==
    LET t == RStrip(LStrip(s))
    IN  IF t # <<>> /\ \A i \in DOMAIN t : t[i] \in Digits THEN Ok(ParseInt(t, 0))
        ELSE Fail("ValueError")

TemperaturePrefix == <<"T", "e", "m", "p", "e", "r", "a", "t", "u", "r", "e", ":", " ">>

\* the second text the code removes, as the source file spells it: blank, U+00C2,
\* U+00B0 (the degree sign), C
DegreeSuffix == <<" ", "Â", "°", "C">>

\* the rows kept by str(i).isupper() and len(i) == 1
IsRowLetter(c) == c.kind = "str" /\ Len(c.s) = 1 /\ c.s[1] \in UpperLetters

\* melt: the wells column after column, each with its value
RECURSIVE MeltWells(_, _, _)
MeltWells(letters, header, j) ==
    IF j > Len(header) THEN <<>>
    ELSE (IF header[j].kind = "empty" THEN <<>>
          ELSE [i \in DOMAIN letters |->
                   [well |-> <<letters[i].a.s, ToNumeric(header[j])>>,
                    value |-> ToNumeric(letters[i].cells[j])]])
         \o MeltWells(letters, header, j + 1)

\* the <> branch of _read_assay
ReadEndpoint(ws, cell, last) ==
    LET above == ws[cell - 1].cells[1]
    IN  IF above.kind # "str" THEN Fail("AttributeError")
        ELSE
        LET temperature == Float(Replace(Replace(above.s, TemperaturePrefix), DegreeSuffix))
        IN  IF temperature.err # "none" THEN Fail(temperature.err)
            ELSE
            LET body == ExcelRows(ws, cell, last)
                letters == SelectSeq(body, LAMBDA r : IsRowLetter(r.a))
                melted == SelectSeq(MeltWells(letters, ws[cell].cells, 1),
                                    LAMBDA w : w.value # NA)
            IN  Ok([read |-> ExcelSpan(ws, cell, last),
                    index |-> [i \in DOMAIN melted |-> melted[i].well],
                    columns |-> <<[cycle |-> 1, label |-> <<"A", "s", "s", "a", "y">>,
                                   time |-> 0, temperature |-> temperature.obj[1]]>>,
                    values |-> [i \in DOMAIN melted |-> <<melted[i].value>>]])

\* _read_assay(file, ws, cell, last)
ReadAssayBlock(ws, cell, last) ==
    IF IsText(ws[cell].a, CycleNr) THEN ReadKinetic(ws, cell, last)
    ELSE IF IsText(ws[cell].a, EndpointMarker) THEN ReadEndpoint(ws, cell, last)
    ELSE Fail("ValueError")

(***************************************************************************)
(* Reading one data block.                                                 *)
(***************************************************************************)
MaxCycles == 3

TimeLabel == <<"T", "i", "m", "e", " ", "[", "s", "]">>
TempLabel == <<"T", "e", "m", "p", ".">>
LumName == <<"L", "u", "m">>

\* a sheet with one kinetic block of n cycles and the wells A1 and B2: the time cell
\* of cycle j holds 30 (j - 1) seconds, nothing or a text that is no number, the
\* temperature cell 36 + j or nothing
KineticSheet(n, tsel, psel) ==
    <<SheetRow(WordCell(LumName), [j \in 1..n |-> EmptyCell]),
      SheetRow(WordCell(CycleNr), [j \in 1..n |-> NumberCell(j)]),
      SheetRow(WordCell(TimeLabel),
               [j \in 1..n |-> CASE tsel[j] = "num" -> NumberCell(30 * (j - 1))
                                 [] tsel[j] = "empty" -> EmptyCell
                                 [] OTHER -> WordCell(<<"n", "/", "a">>)]),
      SheetRow(WordCell(TempLabel),
               [j \in 1..n |-> IF psel[j] THEN NumberCell(36 + j) ELSE EmptyCell]),
      SheetRow(WordCell(<<"A", "1">>), [j \in 1..n |-> NumberCell(10 + j)]),
      SheetRow(WordCell(<<"B", "2">>), [j \in 1..n |-> NumberCell(20 + j)])>>

KineticSheets ==
    UNION {{KineticSheet(n, tsel, psel) :
               tsel \in [1..n -> {"num", "empty", "text"}], psel \in [1..n -> BOOLEAN]} :
           n \in 1..MaxCycles}

TemperatureText(digits, suffix) == TemperaturePrefix \o digits \o suffix

\* the texts of the cell above the marker of an endpoint block
TemperatureTexts ==
    {TemperatureText(d, x) : d \in {<<"3", "7">>, <<"2", "5">>},
                             x \in {<<" ", "°", "C">>, DegreeSuffix, <<>>}}

ValueCells == {NumberCell(5), EmptyCell, WordCell(Over)}

\* a sheet with one endpoint block of the rows A and B and the columns 1 and 2
EndpointSheet(text, v) ==
    <<SheetRow(EmptyCell, <<WordCell(text), EmptyCell>>),
      SheetRow(WordCell(EndpointMarker), <<NumberCell(1), NumberCell(2)>>),
      SheetRow(WordCell(<<"A">>), <<v[1], v[2]>>),
      SheetRow(WordCell(<<"B">>), <<v[3], NumberCell(7)>>)>>

EndpointSheets ==
    {EndpointSheet(text, v) : text \in TemperatureTexts, v \in [1..3 -> ValueCells]}

InitBlock ==
    /\ CorrIdle
    /\ LazyIdle
    /\ AccIdle
    /\ sheet = None /\ plate = None
    /\ rawmeta = None /\ emeta = None
    /\ loaded = None /\ experiment = None
    /\ arg \in {Some(Call("_read_assay", [ws |-> w, cell |-> 2, last |-> 0])) :
                    w \in KineticSheets \cup EndpointSheets}
    /\ val = None

BlockCall(marker) ==
    /\ arg # None /\ arg[1].fn = "_read_assay"
    /\ IsText(arg[1].x.ws[arg[1].x.cell].a, marker)

\* data = cls._read_assay(file, ws, cell, None) for a Cycle Nr. marker
ReadKineticBlock ==
    /\ BlockCall(CycleNr) /\ val = None
    /\ Returned(1, ReadAssayBlock(arg[1].x.ws, arg[1].x.cell, arg[1].x.last))
    /\ UNCHANGED <<sheet, plate, rawmeta, emeta, loaded, experiment, arg>>
    /\ UNCHANGED <<corrVars, accVars, lazyVars>>

\* data = cls._read_assay(file, ws, cell, None) for a <> marker
ReadEndpointBlock ==
    /\ BlockCall(EndpointMarker) /\ val = None
    /\ Returned(1, ReadAssayBlock(arg[1].x.ws, arg[1].x.cell, arg[1].x.last))
    /\ UNCHANGED <<sheet, plate, rawmeta, emeta, loaded, experiment, arg>>
    /\ UNCHANGED <<corrVars, accVars, lazyVars>>

NextBlock ==
    \/ ReadKineticBlock
    \/ ReadEndpointBlock

SpecBlock == InitBlock /\ [][NextBlock]_vars

\* the cycle columns of the block whose elapsed-time cell holds a number
TimedCycles ==
    {j \in DOMAIN arg[1].x.ws[2].cells : arg[1].x.ws[3].cells[j].kind = "num"}

\* the tags the block gives cycle column j
CycleTags(j) ==
    [cycle |-> arg[1].x.ws[2].cells[j].n, label |-> LumName,
     time |-> arg[1].x.ws[3].cells[j].n,
     temperature |-> IF arg[1].x.ws[4].cells[j].kind = "num"
                     THEN arg[1].x.ws[4].cells[j].n ELSE NA]

\* C21: parsing a kinetic block drops exactly the cycle columns whose elapsed-time
\* cell is missing or unparseable: the columns left are the other columns, in
\* their order, each with its own cycle, time and temperature and its own values.
C21_DropsUntimedColumns ==
    (BlockCall(CycleNr) /\ val # None) =>
        /\ val[1].res.err = "none"
        /\ LET got == val[1].res.obj[1]
               timed == SortedSeq(TimedCycles)
           IN  /\ Len(got.columns) = Len(arg[1].x.ws[2].cells)
                                       - Cardinality(DOMAIN arg[1].x.ws[2].cells \ TimedCycles)
               /\ got.columns = [k \in DOMAIN timed |-> CycleTags(timed[k])]
               /\ got.index = <<<< <<"A">>, 1>>, << <<"B">>, 2>>>>
               /\ got.values = [i \in 1..2 |-> [k \in DOMAIN timed |-> 10 * i + timed[k]]]

C21_Witness ==
    /\ BlockCall(CycleNr) /\ val # None
    /\ Len(arg[1].x.ws[2].cells) = 3
    /\ TimedCycles = {1, 3}
    /\ Len(val[1].res.obj[1].columns) = 2
    /\ val[1].res.obj[1].columns[2].cycle = 3

\* the text above the marker of the endpoint block that was read
HeaderText == arg[1].x.ws[1].cells[1].s

\* the header reads "Temperature: <T> °C" with the degree sign U+00B0
DegreeHeader(digits) == HeaderText = TemperatureText(digits, <<" ", "°", "C">>)

\* the block that was read has the one column (1, 'Assay', 0 s, t)
TaggedWith(t) ==
    /\ val[1].res.err = "none"
    /\ val[1].res.obj[1].columns =
           <<[cycle |-> 1, label |-> <<"A", "s", "s", "a", "y">>, time |-> 0, temperature |-> t]>>
    /\ \A i \in DOMAIN val[1].res.obj[1].values : Len(val[1].res.obj[1].values[i]) = 1

\* C22: parsing an endpoint block whose header cell reads "Temperature: <T> °C"
\* succeeds and tags the single data column with temperature <T> as a number,
\* cycle 1 and elapsed time 0.
C22_TemperatureTag ==
    (BlockCall(EndpointMarker) /\ val # None) =>
        \A d \in {<<"3", "7">>, <<"2", "5">>} :
            DegreeHeader(d) => TaggedWith(ParseInt(d, 0))

\* what holds instead: the text the code removes is " Â°C"; a header written with
\* " °C" keeps its unit and float() raises ValueError, while a header written
\* with " Â°C", or without a unit, gives the tag
C22_DegreeSignFails ==
    (BlockCall(EndpointMarker) /\ val # None) =>
        \A d \in {<<"3", "7">>, <<"2", "5">>} :
            /\ DegreeHeader(d) => val[1].res.err = "ValueError"
            /\ HeaderText \in {TemperatureText(d, DegreeSuffix), TemperatureText(d, <<>>)}
                   => TaggedWith(ParseInt(d, 0))

(***************************************************************************)
(* Frame of the correction engine.                                         *)
(***************************************************************************)
\* C23: computing a CorrectedAssay's combined data leaves every source assay's raw
\* table unchanged (same wells, same row order, same values), for one source or
\* more and for either update mode.
C23_SourcesUnchanged == [][\A i \in DOMAIN srcs : srcs'[i].raw = srcs[i].raw]_vars

\* what holds instead: the tables of two or more sources are left alone, and the
\* table of a single source keeps its rows but gets them in sorted order
C23_SingleSourceSorted ==
    [][\A i \in DOMAIN srcs :
          /\ Range(srcs'[i].raw) = Range(srcs[i].raw)
          /\ Len(srcs'[i].raw) = Len(srcs[i].raw)
          /\ Len(srcs) >= 2 => srcs'[i].raw = srcs[i].raw
          /\ (Len(srcs) = 1 /\ srcs'[i].raw # srcs[i].raw)
                => (self[1]._data = None /\ srcs'[i].raw = SortIndex(srcs[i].raw))]_vars

(***************************************************************************)
(* The lazy tables: Plate.data (tecan/data.py) and Experiment.reads        *)
(* (experiment/data.py).  nCompute counts, for the table of every plate    *)
(* and for the reads, the accesses and the computations.                   *)
(***************************************************************************)
MaxAccesses == 3

\* the rows plate number i adds in _plates_to_df: its data under the index
\* (plate, row, column)
PlateRows(p, i) ==
    LET d == PlateData(p.assays)
    IN  [r \in DOMAIN d.index |->
            [plate |-> i, well |-> d.index[r],
             values |-> {<<d.columns[j], d.cells[r][j]>> : j \in DOMAIN d.columns}]]

\* the loop of _plates_to_df from plate number i on: df.append(data)
RECURSIVE StackPlates(_, _)
StackPlates(ps, i) ==
    IF i > Len(ps) THEN <<>> ELSE PlateRows(ps[i], i) \o StackPlates(ps, i + 1)

ReadsLess(r1, r2) ==
    \/ r1.plate < r2.plate
    \/ r1.plate = r2.plate /\ WellLess(r1.well, r2.well)

RECURSIVE InsertRead(_, _)
InsertRead(sorted, r) ==
    IF sorted = <<>> THEN <<r>>
    ELSE IF ReadsLess(r, Head(sorted)) THEN <<r>> \o sorted
    ELSE <<Head(sorted)>> \o InsertRead(Tail(sorted), r)

RECURSIVE SortReadsFrom(_, _)
SortReadsFrom(rs, acc) ==
    IF rs = <<>> THEN acc ELSE SortReadsFrom(Tail(rs), InsertRead(acc, Head(rs)))

\* self._plates_to_df(self.plates).sort_index(); _plates_to_df returns None for no
\* plate at all, and None has no sort_index
PlatesToDf(ps) ==
    IF ps = <<>> THEN Fail("AttributeError")
    ELSE Ok(SortReadsFrom(StackPlates(ps, 1), <<>>))

\* the test `self._reads is None` of Experiment.reads
ReadsMissing(e) == e._reads = None

\* Plate.data: computed from the assays, nothing is kept
PlateDataGet(p) == [res |-> Ok(PlateData(p.assays)), computed |-> TRUE]

\* Experiment.reads: [res, computed, obj]: what is returned, whether _plates_to_df
\* ran, and the experiment afterwards
ExperimentReads(e) ==
    IF ReadsMissing(e)
    THEN LET df == PlatesToDf(e._plates)
         IN  IF df.err # "none" THEN [res |-> Fail(df.err), computed |-> TRUE, obj |-> e]
             ELSE [res |-> Ok(df.obj[1]), computed |-> TRUE,
                   obj |-> [e EXCEPT !._reads = df.obj]]
    ELSE [res |-> Ok(e._reads[1]), computed |-> FALSE, obj |-> e]

LazyPlate(tag, ss) == [tag |-> tag, wells |-> Len(ss[1].index), assays |-> ss]

LazyPlates ==
    {LazyPlate("x", <<TimeSeriesObj("Lum", <<<<RowB, 1>>, <<RowA, 1>>>>, <<0, 30>>)>>),
     LazyPlate("y", <<SingleAssayObj("OD", <<<<RowA, 1>>>>, <<0>>)>>),
     LazyPlate("z", <<TimeSeriesObj("Lum", <<<<RowA, 1>>>>, <<0, 30>>),
                      SingleAssayObj("OD", <<<<RowA, 1>>>>, <<0>>)>>)}

NoCounts(n) == [data |-> [i \in 1..n |-> 0], reads |-> 0]

InitLazy ==
    /\ CorrIdle
    /\ AccIdle
    /\ sheet = None /\ plate = None
    /\ rawmeta = None /\ emeta = None
    /\ loaded = None
    /\ \E ps \in UNION {[1..n -> LazyPlates] : n \in 0..2} :
          /\ experiment = Some(ExperimentNew(ps, [i \in DOMAIN ps |-> i]))
          /\ nCompute = [accessed |-> NoCounts(Len(ps)), computed |-> NoCounts(Len(ps))]
    /\ arg = None /\ val = None

Accesses ==
    nCompute.accessed.reads
    + (IF DOMAIN nCompute.accessed.data = {} THEN 0
       ELSE IF Len(nCompute.accessed.data) = 1 THEN nCompute.accessed.data[1]
       ELSE nCompute.accessed.data[1] + nCompute.accessed.data[2])

\* experiment.plates[i - 1].data
AccessPlateData ==
    /\ experiment # None /\ nCompute # None /\ Accesses < MaxAccesses
    /\ \E i \in DOMAIN experiment[1].obj[1]._plates :
          LET r == PlateDataGet(experiment[1].obj[1]._plates[i])
          IN  /\ Returned(Accesses + 1, r.res)
              /\ nCompute' = [accessed |-> [nCompute.accessed EXCEPT !.data[i] = @ + 1],
                              computed |-> [nCompute.computed EXCEPT
                                               !.data[i] = IF r.computed THEN @ + 1 ELSE @]]
    /\ UNCHANGED <<sheet, plate, rawmeta, emeta, loaded, experiment, arg>>
    /\ UNCHANGED <<corrVars, accVars>>

\* experiment.reads; filling the cache reads the data of every plate
AccessReads ==
    /\ experiment # None /\ nCompute # None /\ Accesses < MaxAccesses
    /\ LET e == experiment[1].obj[1]
           r == ExperimentReads(e)
           n == IF r.computed THEN 1 ELSE 0
       IN  /\ Returned(Accesses + 1, r.res)
           /\ experiment' = Some([experiment[1] EXCEPT !.obj = Some(r.obj)])
           /\ nCompute' =
                 [accessed |-> [data |-> [i \in DOMAIN e._plates |-> nCompute.accessed.data[i] + n],
                                reads |-> nCompute.accessed.reads + 1],
                  computed |-> [data |-> [i \in DOMAIN e._plates |-> nCompute.computed.data[i] + n],
                                reads |-> nCompute.computed.reads + n]]
    /\ UNCHANGED <<sheet, plate, rawmeta, emeta, loaded, arg>>
    /\ UNCHANGED <<corrVars, accVars>>

NextLazy ==
    \/ AccessPlateData
    \/ AccessReads

SpecLazy == InitLazy /\ [][NextLazy]_vars

\* the table was computed on its first access and not again
OnceOnly(accessed, computed) == computed = (IF accessed = 0 THEN 0 ELSE 1)

\* C24: Plate.data and Experiment.reads are populate-once, read-many: the table is
\* computed on the first access only, and every later access returns the stored
\* result without recomputing it from the assays or the plates.
C24_PopulateOnce ==
    nCompute # None =>
        /\ OnceOnly(nCompute.accessed.reads, nCompute.computed.reads)
        /\ \A i \in DOMAIN nCompute.accessed.data :
               OnceOnly(nCompute.accessed.data[i], nCompute.computed.data[i])

\* what holds instead: the reads of an experiment with plates are computed once and
\* kept, while the data of a plate is computed again on every access
C24_ReadsOnlyAreKept ==
    nCompute # None =>
        /\ experiment[1].obj[1]._plates # <<>>
              => /\ OnceOnly(nCompute.accessed.reads, nCompute.computed.reads)
                 /\ nCompute.accessed.reads > 0
                       => experiment[1].obj[1]._reads = PlatesToDf(experiment[1].obj[1]._plates).obj
        /\ \A i \in DOMAIN nCompute.accessed.data :
               nCompute.computed.data[i] = nCompute.accessed.data[i]

(***************************************************************************)
(* tecan/io.py: the assays of a sheet (read, _find_labels, _read_label).   *)
(***************************************************************************)
\* ws.cell(row, column + k).value for a row of the sheet: empty past the last cell
CellAt(row, k) == IF k \in DOMAIN row.cells THEN row.cells[k] ELSE EmptyCell

\* `if value:` for the value of a cell
Truthy(c) == (c.kind = "num" /\ c.n # 0) \/ (c.kind = "str" /\ c.s # <<>>)

\* str(cell.value)
StrOf(c) ==
    IF c.kind = "str" THEN c.s
    ELSE IF c.kind = "num" THEN Decimal(c.n)
    ELSE <<"N", "o", "n", "e">>

LowerChar(c) ==
    CASE c = "A" -> "a" [] c = "B" -> "b" [] c = "C" -> "c" [] c = "D" -> "d"
      [] c = "E" -> "e" [] c = "G" -> "g" [] c = "K" -> "k" [] c = "L" -> "l"
      [] c = "M" -> "m" [] c = "N" -> "n" [] c = "O" -> "o" [] c = "R" -> "r"
      [] c = "T" -> "t" [] c = "V" -> "v" [] OTHER -> c

\* str.lower()
LowerText(s) == [i \in DOMAIN s |-> LowerChar(s[i])]

ModeText == <<"m", "o", "d", "e">>
KineticText == <<"k", "i", "n", "e", "t", "i", "c">>
PartOfPlateText == <<"p", "a", "r", "t", " ", "o", "f", " ", "p", "l", "a", "t", "e">>

\* _get_label_mode(ws, label): the first of the four cells right of the label that
\* holds a value, else the last of them
GetLabelMode(row) ==
    IF \E k \in 1..4 : Truthy(CellAt(row, k))
    THEN CellAt(row, CHOOSE k \in 1..4 :
                        /\ Truthy(CellAt(row, k))
                        /\ \A j \in 1..(k - 1) : ~Truthy(CellAt(row, j)))
    ELSE CellAt(row, 4)

\* _find_labels(ws): the rows of the Mode labels that are not the kinetic one
FindLabels(ws) ==
    SelectSeq([r \in DOMAIN ws |-> r],
              LAMBDA r : /\ LowerText(StrOf(ws[r].a)) = ModeText
                         /\ LowerText(StrOf(GetLabelMode(ws[r]))) # KineticText)

\* the key of a parameter row: lower case, blanks and dashes to underscores, no
\* brackets
RECURSIVE KeyOf(_)
KeyOf(s) ==
    IF s = <<>> THEN <<>>
    ELSE (IF Head(s) \in {" ", "-"} THEN <<"_">>
          ELSE IF Head(s) \in {"(", ")"} THEN <<>>
          ELSE <<LowerChar(Head(s))>>) \o KeyOf(Tail(s))

\* the loop of _read_label from row r on, at most up to row stop: the parameters
\* under a label, each [key, value, unit]
RECURSIVE ReadParameters(_, _, _)
ReadParameters(ws, r, stop) ==
    IF r > stop \/ r > Len(ws) THEN <<>>
    ELSE IF \/ LowerText(StrOf(ws[r].a)) \in {ModeText, PartOfPlateText}
            \/ ~Truthy(ws[r].a)
    THEN <<>>
    ELSE <<[key |-> KeyOf(StrOf(ws[r].a)), value |-> CellAt(ws[r], 4), unit |-> CellAt(ws[r], 5)]>>
         \o ReadParameters(ws, r + 1, stop)

\* _read_label(ws, label): the AssayMetadata of the label of row r
ReadLabel(ws, r) ==
    [mode |-> GetLabelMode(ws[r]), parameters |-> ReadParameters(ws, r + 1, r + 21)]

\* SingleAssay(data, metadata) if len(data.columns) == 1 else TimeSeries(data, metadata);
\* AbstractAssay.__init__ takes the name from the first column and raises IndexError
\* when there is none
MakeAssay(data, metadata) ==
    IF data.columns = <<>> THEN Fail("IndexError")
    ELSE Ok([cls |-> IF Len(data.columns) = 1 THEN "SingleAssay" ELSE "TimeSeries",
             name |-> data.columns[1].label,
             metadata |-> metadata,
             data |-> data])

\* zip(assay_data, assay_metadata): as many pairs as the shorter list has
ZipLen(a, b) == IF Len(a) < Len(b) THEN Len(a) ELSE Len(b)

\* TecanReader.read from _find_assays on, for a sheet whose header resolves: the
\* Plate's AssayCollection
ReadSheet(ws) ==
    LET assay_metadata == [i \in DOMAIN FindLabels(ws) |-> ReadLabel(ws, FindLabels(ws)[i])]
        a_list == FindAssays(ws)
        assay_data == [i \in DOMAIN a_list |->
                          ReadAssayBlock(ws, a_list[i],
                                         IF i < Len(a_list) THEN a_list[i + 1] ELSE 0)]
    IN  IF \E i \in DOMAIN assay_data : assay_data[i].err # "none"
        THEN Fail(FirstError(assay_data))
        ELSE
        LET assays == [i \in 1..ZipLen(assay_data, assay_metadata) |->
                          MakeAssay(assay_data[i].obj[1], assay_metadata[i])]
        IN  IF \E i \in DOMAIN assays : assays[i].err # "none"
            THEN Fail(FirstError(assays))
            ELSE Ok([assays |-> AssayCollection([i \in DOMAIN assays |-> assays[i].obj[1]])])

(***************************************************************************)
(* Reading the assays of a sheet.  The sheets of the model hold the Mode   *)
(* labels first and the data blocks after them, each block two columns     *)
(* wide; the values of the b-th block are 100 b + 1 and 100 b + 2.         *)
(***************************************************************************)
MaxBlocks == 2

AbsName == <<"A", "b", "s">>
KineticMode == <<"K", "i", "n", "e", "t", "i", "c">>
ModeLabel == <<"M", "o", "d", "e">>
GainLabel == <<"G", "a", "i", "n">>

\* the rows of a label: the Mode row, with a parameter row under it or without
LabelRows(mode, gain) ==
    <<SheetRow(WordCell(ModeLabel), <<EmptyCell, EmptyCell, EmptyCell, WordCell(mode)>>)>>
    \o (IF gain
        THEN <<SheetRow(WordCell(GainLabel),
                        <<EmptyCell, EmptyCell, EmptyCell, NumberCell(100), EmptyCell>>)>>
        ELSE <<>>)
    \o <<SheetRow(EmptyCell, <<>>)>>

LabelChoices ==
    {LabelRows(LumName, FALSE), LabelRows(AbsName, TRUE), LabelRows(KineticMode, FALSE)}

\* the rows of the b-th block, a kinetic one: name, marker, times, temperatures, the
\* well A1 and an empty row; timed[j] says whether cycle j has its time
KineticRows(b, name, timed) ==
    <<SheetRow(WordCell(name), <<EmptyCell, EmptyCell>>),
      SheetRow(WordCell(CycleNr), <<NumberCell(1), NumberCell(2)>>),
      SheetRow(WordCell(TimeLabel),
               [j \in 1..2 |-> IF timed[j] THEN NumberCell(30 * (j - 1)) ELSE EmptyCell]),
      SheetRow(WordCell(TempLabel), <<NumberCell(37), NumberCell(37)>>),
      SheetRow(WordCell(<<"A", "1">>), <<NumberCell(100 * b + 1), NumberCell(100 * b + 2)>>),
      SheetRow(EmptyCell, <<EmptyCell, EmptyCell>>)>>

\* the rows of the b-th block, an endpoint one: temperature, marker, the row A
EndpointRows(b) ==
    <<SheetRow(EmptyCell, <<WordCell(TemperatureText(<<"3", "7">>, DegreeSuffix)), EmptyCell>>),
      SheetRow(WordCell(EndpointMarker), <<NumberCell(1), NumberCell(2)>>),
      SheetRow(WordCell(<<"A">>), <<NumberCell(100 * b + 1), NumberCell(100 * b + 2)>>)>>

BlockChoices(b) ==
    {KineticRows(b, name, timed) : name \in {LumName, AbsName}, timed \in [1..2 -> BOOLEAN]}
    \cup {EndpointRows(b)}

RECURSIVE Flatten(_)
Flatten(parts) == IF parts = <<>> THEN <<>> ELSE Head(parts) \o Flatten(Tail(parts))

RECURSIVE BlockSequences(_)
BlockSequences(n) ==
    IF n = 0 THEN {<<>>}
    ELSE {Append(q, rs) : q \in BlockSequences(n - 1), rs \in BlockChoices(n)}

Worksheets ==
    {Flatten(ls) \o Flatten(bs) :
        ls \in UNION {[1..n -> LabelChoices] : n \in 0..(MaxBlocks + 1)},
        bs \in UNION {BlockSequences(n) : n \in 0..MaxBlocks}}

InitSheet ==
    /\ CorrIdle
    /\ LazyIdle
    /\ AccIdle
    /\ sheet = None /\ plate = None
    /\ rawmeta = None /\ emeta = None
    /\ loaded = None /\ experiment = None
    /\ arg \in {Some(Call("read", w)) : w \in Worksheets}
    /\ val = None

\* plate = TecanReader.read(file), the assays of the plate
ReadWorksheet ==
    /\ arg # None /\ arg[1].fn = "read" /\ val = None
    /\ Returned(1, ReadSheet(arg[1].x))
    /\ UNCHANGED <<sheet, plate, rawmeta, emeta, loaded, experiment, arg>>
    /\ UNCHANGED <<corrVars, accVars, lazyVars>>

NextSheet == ReadWorksheet

SpecSheet == InitSheet /\ [][NextSheet]_vars

\* a sheet was read, and the plate was built
SheetRead == arg # None /\ arg[1].fn = "read" /\ val # None /\ val[1].res.err = "none"

Markers == FindAssays(arg[1].x)

AssayText == <<"A", "s", "s", "a", "y">>

\* the name the i-th data block gives its assay
BlockName(i) ==
    IF IsText(arg[1].x[Markers[i]].a, CycleNr) THEN arg[1].x[Markers[i] - 1].a.s ELSE AssayText

\* the number of columns of the i-th data block that come with a time
BlockColumns(i) ==
    IF IsText(arg[1].x[Markers[i]].a, CycleNr)
    THEN Cardinality({j \in 1..2 : arg[1].x[Markers[i] + 1].cells[j].kind = "num"})
    ELSE 1

DistinctNames == \A i \in DOMAIN Markers : \A j \in DOMAIN Markers : i # j => BlockName(i) # BlockName(j)

\* the assay is the one of the i-th block: its name and its values
FromBlock(a, i) ==
    /\ a.name = BlockName(i)
    /\ a.data.values # <<>>
    /\ \A r \in DOMAIN a.data.values : \A j \in DOMAIN a.data.values[r] :
           a.data.values[r][j] \in {100 * i + 1, 100 * i + 2}

\* C25: TecanReader.read produces one assay per data-block marker, in sheet order,
\* the i-th block paired with the i-th metadata block; an assay is a SingleAssay if
\* and only if its block has exactly one column; no block is dropped when the
\* number of metadata blocks differs from the number of data blocks.  Stated for
\* the sheets whose blocks have different names.
C25_OneAssayPerBlock ==
    (SheetRead /\ DistinctNames) =>
        LET got == val[1].res.obj[1].assays
            labels == FindLabels(arg[1].x)
        IN  /\ Len(got) = Len(Markers)
            /\ \A i \in DOMAIN got :
                   /\ FromBlock(got[i], i)
                   /\ i <= Len(labels) => got[i].metadata = ReadLabel(arg[1].x, labels[i])
                   /\ got[i].cls = "SingleAssay" <=> BlockColumns(i) = 1

\* what holds instead: the blocks are paired with the metadata blocks as far as both
\* lists go, and the blocks past the last metadata block are left out
C25_AsManyAsLabels ==
    (SheetRead /\ DistinctNames) =>
        LET got == val[1].res.obj[1].assays
            labels == FindLabels(arg[1].x)
        IN  /\ Len(got) = ZipLen(Markers, labels)
            /\ \A i \in DOMAIN got :
                   /\ FromBlock(got[i], i)
                   /\ got[i].metadata = ReadLabel(arg[1].x, labels[i])
                   /\ got[i].cls = "SingleAssay" <=> BlockColumns(i) = 1

\* the blocks that reach the plate: those that have a metadata block
Paired == 1..ZipLen(Markers, FindLabels(arg[1].x))

\* the last of the paired blocks that carries the name of block i
LastNamed(i) ==
    CHOOSE j \in Paired : BlockName(j) = BlockName(i) /\ \A k \in Paired : BlockName(k) = BlockName(i) => k <= j

\* C26: an AssayCollection built from assays that share a name holds exactly one
\* entry per distinct name, and that entry is the last assay with that name; a
\* plate with several endpoint blocks keeps only the last one.
C26_LastOfEachName ==
    SheetRead =>
        LET got == val[1].res.obj[1].assays
        IN  /\ \A i \in DOMAIN got : \A j \in DOMAIN got : i # j => got[i].name # got[j].name
            /\ {got[i].name : i \in DOMAIN got} = {BlockName(i) : i \in Paired}
            /\ \A i \in Paired : \E k \in DOMAIN got : FromBlock(got[k], LastNamed(i))

\* a plate read from a sheet with two endpoint blocks: one assay, that of the second
C26_Witness ==
    /\ SheetRead
    /\ Paired = {1, 2}
    /\ BlockName(1) = AssayText /\ BlockName(2) = AssayText
    /\ Len(val[1].res.obj[1].assays) = 1
    /\ FromBlock(val[1].res.obj[1].assays[1], 2)

\* the marker that follows the i-th one, 0 if it is the last
NextMarker(i) == IF i < Len(Markers) THEN Markers[i + 1] ELSE 0

\* the sheet rows strictly between the i-th marker and the next, or the end of the sheet
RowsBetween(i) ==
    IF NextMarker(i) = 0 THEN (Markers[i] + 1)..Len(arg[1].x)
    ELSE (Markers[i] + 1)..(NextMarker(i) - 1)

\* C27: the rows read for a data block that is followed by another marker are
\* exactly the sheet rows strictly between its marker row and the next marker row,
\* never the next marker's row; with no next marker the block extends to the end of
\* the sheet.
C27_RowsBetweenMarkers ==
    SheetRead =>
        \A k \in DOMAIN val[1].res.obj[1].assays : \A i \in DOMAIN Markers :
            FromBlock(val[1].res.obj[1].assays[k], i) =>
                val[1].res.obj[1].assays[k].data.read = RowsBetween(i)

\* what holds instead: the row of the next marker is read with the block, and none of
\* its cells reaches the table of the block
C27_ReadsNextMarker ==
    SheetRead =>
        \A k \in DOMAIN val[1].res.obj[1].assays : \A i \in DOMAIN Markers :
            FromBlock(val[1].res.obj[1].assays[k], i) =>
                /\ val[1].res.obj[1].assays[k].data.read =
                       RowsBetween(i) \cup (IF NextMarker(i) = 0 THEN {} ELSE {NextMarker(i)})
                /\ Len(val[1].res.obj[1].assays[k].data.index) =
                       (IF IsText(arg[1].x[Markers[i]].a, CycleNr) THEN 1 ELSE 2)

(***************************************************************************)
(* tecan/io.py: header lookups (_find_cell, _find_exact, _find_header,     *)
(* _get_shifted_value).  A lookup scans column A of the rows of a window;  *)
(* col_shift is [iter, n, offs]: a single offset n, or the offsets offs of *)
(* an iterable.  The value None is the empty cell.                         *)
(***************************************************************************)
FixedShift(n) == [iter |-> FALSE, n |-> n, offs |-> <<>>]
ShiftList(offs) == [iter |-> TRUE, n |-> 0, offs |-> offs]

\* _get_shifted_value(ws, c, col_shift) for the cell c of column A of the row
GetShiftedValue(row, col_shift) ==
    IF col_shift.iter
    THEN IF \E k \in DOMAIN col_shift.offs : Truthy(CellAt(row, col_shift.offs[k]))
         THEN CellAt(row, col_shift.offs[
                  CHOOSE k \in DOMAIN col_shift.offs :
                      /\ Truthy(CellAt(row, col_shift.offs[k]))
                      /\ \A j \in 1..(k - 1) : ~Truthy(CellAt(row, col_shift.offs[j]))])
         ELSE EmptyCell
    ELSE CellAt(row, col_shift.n)

\* the rows ws.iter_rows(min_col=1, max_col=1, **opts) goes through
Window(ws, opts) == {r \in DOMAIN ws : opts.min_row <= r /\ r <= opts.max_row}

\* _find_cell(ws, condition, transform, **opts)
FindCell(ws, Condition(_), Transform(_), opts) ==
    IF \E r \in Window(ws, opts) : Condition(ws[r].a)
    THEN Transform(ws[CHOOSE r \in Window(ws, opts) :
                         /\ Condition(ws[r].a)
                         /\ \A q \in Window(ws, opts) : q < r => ~Condition(ws[q].a)])
    ELSE EmptyCell

StripChars == {":", " ", "\t", "\n", "\r"}

\* str.strip(': \t\n\r')
RECURSIVE Strip(_)
Strip(s) ==
    IF s # <<>> /\ Head(s) \in StripChars THEN Strip(Tail(s))
    ELSE IF s # <<>> /\ s[Len(s)] \in StripChars THEN Strip(SubSeq(s, 1, Len(s) - 1))
    ELSE s

\* c.value == value
EqualsValue(c, value) == c.kind = "str" /\ c.s = value

\* str(c.value).strip(': \t\n\r') == value
HeaderIs(c, value) == Strip(StrOf(c)) = value

\* _find_exact(ws, value, col_shift, **opts)
FindExact(ws, value, col_shift, opts) ==
    FindCell(ws, LAMBDA c : EqualsValue(c, value), LAMBDA row : GetShiftedValue(row, col_shift), opts)

\* _find_header(ws, value, col_shift, **opts)
FindHeader(ws, value, col_shift, opts) ==
    FindCell(ws, LAMBDA c : HeaderIs(c, value), LAMBDA row : GetShiftedValue(row, col_shift), opts)

(***************************************************************************)
(* Looking up the headers of a sheet.                                      *)
(***************************************************************************)
MaxFindRows == 2

DateHeader == <<"D", "a", "t", "e", ":">>
StartTimeHeader == <<"S", "t", "a", "r", "t", " ", "T", "i", "m", "e">>

\* column A: nothing, 'Date:' or 'Start Time:'
HeaderCells == {EmptyCell, WordCell(DateHeader), WordCell(StartTimeHeader \o <<":">>)}

\* the cells right of column A: nothing, the number 0, a text
ShiftedCells == {EmptyCell, NumberCell(0), WordCell(<<"x">>)}

FindRows == {SheetRow(a, <<c1, c2>>) : a \in HeaderCells, c1 \in ShiftedCells, c2 \in ShiftedCells}

FindSheets == UNION {[1..n -> FindRows] : n \in 1..MaxFindRows}

Shifts == {ShiftList(<<1, 2>>), ShiftList(<<2, 1>>), FixedShift(2)}

InitFind ==
    /\ CorrIdle
    /\ LazyIdle
    /\ AccIdle
    /\ sheet = None /\ plate = None
    /\ rawmeta = None /\ emeta = None
    /\ loaded = None /\ experiment = None
    /\ arg \in {Some(Call(fn, [ws |-> w, col_shift |-> sh, opts |-> o])) :
                    fn \in {"_find_exact", "_find_header"}, w \in FindSheets, sh \in Shifts,
                    o \in [min_row : 1..2, max_row : {MaxFindRows}]}
    /\ val = None

\* cls._find_exact(ws, 'Date:', col_shift, min_col=1, max_col=1, **opts)
CallFindExact ==
    /\ arg # None /\ arg[1].fn = "_find_exact" /\ val = None
    /\ Returned(1, FindExact(arg[1].x.ws, DateHeader, arg[1].x.col_shift, arg[1].x.opts))
    /\ UNCHANGED <<sheet, plate, rawmeta, emeta, loaded, experiment, arg>>
    /\ UNCHANGED <<corrVars, accVars, lazyVars>>

\* cls._find_header(ws, 'Start Time', col_shift, min_col=1, max_col=1, **opts)
CallFindHeader ==
    /\ arg # None /\ arg[1].fn = "_find_header" /\ val = None
    /\ Returned(1, FindHeader(arg[1].x.ws, StartTimeHeader, arg[1].x.col_shift, arg[1].x.opts))
    /\ UNCHANGED <<sheet, plate, rawmeta, emeta, loaded, experiment, arg>>
    /\ UNCHANGED <<corrVars, accVars, lazyVars>>

NextFind ==
    \/ CallFindExact
    \/ CallFindHeader

SpecFind == InitFind /\ [][NextFind]_vars

\* the rows of the window whose column A holds the header looked up
Matching ==
    {r \in Window(arg[1].x.ws, arg[1].x.opts) :
        IF arg[1].fn = "_find_exact" THEN arg[1].x.ws[r].a = WordCell(DateHeader)
        ELSE arg[1].x.ws[r].a = WordCell(StartTimeHeader \o <<":">>)}

FirstMatching == CHOOSE r \in Matching : \A q \in Matching : r <= q

\* the cells of the first matching row at the offsets, in the order of the offsets
OffsetCells ==
    [k \in DOMAIN arg[1].x.col_shift.offs |->
        CellAt(arg[1].x.ws[FirstMatching], arg[1].x.col_shift.offs[k])]

VariableLookup ==
    /\ arg # None /\ arg[1].fn \in {"_find_exact", "_find_header"}
    /\ arg[1].x.col_shift.iter
    /\ val # None

\* C28: a header lookup with a variable offset takes the first cell of the window
\* that matches, tries the offsets in the given order and returns the value of the
\* first offset whose cell is not empty, 0 included; it returns no value only if
\* no cell matches or every offset cell is empty.
C28_FirstNonEmptyOffset ==
    VariableLookup =>
        IF Matching = {} \/ \A k \in DOMAIN OffsetCells : OffsetCells[k] = EmptyCell
        THEN val[1].res = EmptyCell
        ELSE \E k \in DOMAIN OffsetCells :
                /\ OffsetCells[k] # EmptyCell
                /\ \A j \in 1..(k - 1) : OffsetCells[j] = EmptyCell
                /\ val[1].res = OffsetCells[k]

\* what holds instead: the value returned is that of the first offset whose cell is
\* true as a condition, so that a cell holding 0 counts as empty
C28_FirstTruthyOffset ==
    VariableLookup =>
        IF Matching = {} \/ \A k \in DOMAIN OffsetCells : ~Truthy(OffsetCells[k])
        THEN val[1].res = EmptyCell
        ELSE \E k \in DOMAIN OffsetCells :
                /\ Truthy(OffsetCells[k])
                /\ \A j \in 1..(k - 1) : ~Truthy(OffsetCells[j])
                /\ val[1].res = OffsetCells[k]

\* a CorrectedPlate was built from the plates
PlateBuilt == kind = "plate" /\ pc = "built"

\* the assays of the source plates that carry the name
Carrying(nm) ==
    UNION {{[plate |-> q, idx |-> j] : j \in {i \in DOMAIN plates[q].assays : plates[q].assays[i].name = nm}} :
              q \in DOMAIN plates}

\* the source assays a corrected assay of the plate combines
SourcesOf(k) == {cplate[1]._assays[k].assay._assays[i] : i \in DOMAIN cplate[1]._assays[k].assay._assays}

\* C29: a CorrectedPlate built from N plates contains, for every assay name of the
\* source plates, one corrected assay that combines exactly the source assays
\* carrying that name; no assay of a source plate is dropped and assays with
\* different names are never combined, whatever the order or number of assays in
\* each plate.
C29_CombinedByName ==
    PlateBuilt =>
        \A p \in DOMAIN plates : \A i \in DOMAIN plates[p].assays :
            /\ Cardinality({k \in DOMAIN cplate[1]._assays :
                               cplate[1]._assays[k].name = plates[p].assays[i].name}) = 1
            /\ \A k \in DOMAIN cplate[1]._assays :
                   cplate[1]._assays[k].name = plates[p].assays[i].name
                       => SourcesOf(k) = Carrying(plates[p].assays[i].name)

\* what holds instead: the k-th corrected assay combines the k-th assay of every
\* plate, as far as the plate with the fewest assays goes, under the name of the
\* k-th assay of the first plate
C29_CombinedByPosition ==
    PlateBuilt =>
        /\ Len(cplate[1]._assays) = MinLen(plates)
        /\ \A k \in DOMAIN cplate[1]._assays :
               /\ cplate[1]._assays[k].name = plates[1].assays[k].name
               /\ cplate[1]._assays[k].assay._assays =
                      [p \in DOMAIN plates |-> [plate |-> p, idx |-> k]]

(***************************************************************************)
(* Adding plates to an experiment (experiment/data.py Experiment.add_plates*)
(* and add_plate, experiment/io.py ExperimentReader.add_plates and         *)
(* add_plate).  experiment is the object the caller passed in, loaded the  *)
(* plates read from the files and the metadata read for them; val is what  *)
(* the call gave back to the caller.                                       *)
(***************************************************************************)
\* a call that returns None
NoValue == [err |-> "none", obj |-> None]

\* experiment.add_plates(plates, metadata): the receiver after the call, and what
\* the call returns; a lone Plate cannot be made a list
ExperimentAddPlates(e, new, idx, lone) ==
    IF lone THEN [self |-> e, ret |-> Fail("TypeError")]
    ELSE LET plates_ == e._plates \o new
             metadata == e._metadata \o idx
             made == ExperimentNew(plates_, metadata)
         IN  [self |-> e,
              ret |-> [err |-> "none", obj |-> made.obj,
                       warnings |-> Verify(plates_, metadata) \o made.warnings]]

\* experiment.add_plate(plate, metadata)
ExperimentAddPlate(e, new, idx) == ExperimentAddPlates(e, <<new>>, idx, FALSE)

\* ExperimentReader.add_plates(experiment, plates, metadata), the files read
ReaderAddPlates(e, new, idx) ==
    LET r == ExperimentAddPlates(e, new, idx, FALSE)
    IN  [self |-> r.self, ret |-> IF r.ret.err = "none" THEN NoValue ELSE Fail(r.ret.err)]

\* ExperimentReader.add_plate(experiment, plate, metadata), the file read
ReaderAddPlate(e, new, idx) ==
    LET r == ExperimentAddPlates(e, new, idx, TRUE)
    IN  [self |-> r.self, ret |-> IF r.ret.err = "none" THEN NoValue ELSE Fail(r.ret.err)]

AddedPlates == UNION {[1..n -> {[tag |-> t, wells |-> 1] : t \in {"x", "y"}}] : n \in 0..MaxPlates}

AddedIndexes == {PlateLevel(rows, 1) : rows \in [1..MaxPlates -> {0, 1}]}

InitAdd ==
    /\ CorrIdle
    /\ LazyIdle
    /\ AccIdle
    /\ sheet = None /\ plate = None
    /\ rawmeta = None /\ emeta = None
    /\ loaded \in {Some([plates |-> ps, metadata |-> idx]) : ps \in AddedPlates, idx \in AddedIndexes}
    /\ experiment \in {ExperimentNew(ps, idx).obj : ps \in AddedPlates, idx \in AddedIndexes}
    /\ arg = None /\ val = None

AddCall(fn, r) ==
    /\ arg' = Some(Call(fn, loaded[1]))
    /\ experiment' = Some(r.self)
    /\ Returned(1, r.ret)
    /\ UNCHANGED <<sheet, plate, rawmeta, emeta, loaded>>
    /\ UNCHANGED <<corrVars, accVars, lazyVars>>

\* e2 = experiment.add_plates(plates, metadata)
CallAddPlates ==
    /\ val = None
    /\ AddCall("Experiment.add_plates",
               ExperimentAddPlates(experiment[1], loaded[1].plates, loaded[1].metadata, FALSE))

\* e2 = experiment.add_plate(plate, metadata)
CallAddPlate ==
    /\ val = None /\ Len(loaded[1].plates) = 1
    /\ AddCall("Experiment.add_plate",
               ExperimentAddPlate(experiment[1], loaded[1].plates[1], loaded[1].metadata))

\* ExperimentReader.add_plates(experiment, files, metadata)
CallReaderAddPlates ==
    /\ val = None
    /\ AddCall("ExperimentReader.add_plates",
               ReaderAddPlates(experiment[1], loaded[1].plates, loaded[1].metadata))

\* ExperimentReader.add_plate(experiment, file, metadata)
CallReaderAddPlate ==
    /\ val = None /\ Len(loaded[1].plates) = 1
    /\ AddCall("ExperimentReader.add_plate",
               ReaderAddPlate(experiment[1], loaded[1].plates[1], loaded[1].metadata))

NextAdd ==
    \/ CallAddPlates
    \/ CallAddPlate
    \/ CallReaderAddPlates
    \/ CallReaderAddPlate

SpecAdd == InitAdd /\ [][NextAdd]_vars

\* the step is the call of fn
AddStep(fn) == val = None /\ val' # None /\ arg' # None /\ arg'[1].fn = fn

\* the plates before the step, followed by the plates read
Extended == experiment[1]._plates \o loaded[1].plates

\* after the step the caller has an experiment with the extended plate list: the one
\* passed in or the one returned
HoldsExtended ==
    \/ experiment'[1]._plates = Extended
    \/ /\ val'[1].res.err = "none"
       /\ val'[1].res.obj # None
       /\ val'[1].res.obj[1]._plates = Extended

\* the method returned a new experiment with the extended list, the receiver as before
ReturnsExtended ==
    /\ experiment' = experiment
    /\ val'[1].res.err = "none"
    /\ val'[1].res.obj # None
    /\ val'[1].res.obj[1]._plates = Extended

\* C30: after ExperimentReader.add_plates or ExperimentReader.add_plate the caller
\* holds an Experiment (the one passed in, or a returned one) whose plate list is
\* the previous plates followed by the newly read ones; Experiment.add_plates
\* never modifies its receiver and returns a new Experiment with that plate list.
C30_CallerHoldsExtended ==
    [][/\ AddStep("ExperimentReader.add_plates") => HoldsExtended
       /\ AddStep("ExperimentReader.add_plate") => HoldsExtended
       /\ AddStep("Experiment.add_plates") => ReturnsExtended]_vars

\* what holds instead: the methods of Experiment return the extended experiment; the
\* reader's add_plates gives nothing back and its add_plate fails, and the
\* experiment passed in is as before
C30_ReaderGivesNothing ==
    [][/\ AddStep("Experiment.add_plates") => ReturnsExtended
       /\ AddStep("Experiment.add_plate") => ReturnsExtended
       /\ AddStep("ExperimentReader.add_plates") =>
              experiment' = experiment /\ val'[1].res = NoValue
       /\ AddStep("ExperimentReader.add_plate") =>
              experiment' = experiment /\ val'[1].res = Fail("TypeError")]_vars

====
